---- MODULE Spec2Model ----
(***************************************************************************)
(* Papyrus: a revisioned key-value store.  A Storage composes an ordered   *)
(* list of layers (in-memory MemLayer, append-only-log AOLFileLayer),      *)
(* routes every write to the first layer that is not full and answers      *)
(* reads by scanning the layers in declared order.                         *)
(***************************************************************************)
EXTENDS Integers, Sequences, FiniteSets, TLC

\* ------------------------------------------------------------------ bounds
\* the writes of one run, and the threshold of a layer that has one
MaxOps == 2
MaxThreshold == 1
\* the layer instances one run constructs through Layer.open
MaxOpens == 2

\* Python's None, for the integer-valued fields (key, raw payload, threshold, uid).
None == 0

\* the keys, the payloads (bytes) and the numbers of layers a Storage is opened with
Keys == {1, 2}
Raws == {1}
LayerCounts == {1, 2}
Thresholds == {None, MaxThreshold}
LayerNames == {"mem", "aol"}
TagNames == {"t"}
TagValues == Keys
\* the urls Layer.open is called with
URLs == {"mem://a", "mem://b", "aol://f"}

\* ------------------------------------------------------------ dict helpers
EmptyDict == << >>

Put(d, k, v) == [x \in (DOMAIN d) \cup {k} |-> IF x = k THEN v ELSE d[x]]

Get(d, k, default) == IF k \in DOMAIN d THEN d[k] ELSE default

Reverse(s) == [i \in 1 .. Len(s) |-> s[Len(s) + 1 - i]]

\* ------------------------------------------------------------------ types
\* None where a Value is expected.
NoneValue == [vtype |-> "None", raw |-> None]

\* Value(raw): NIL for None, RAW for bytes.
Value(raw) == [vtype |-> IF raw = None THEN "NIL" ELSE "RAW", raw |-> raw]

\* value = Value(None); value.delete()
DeletedValue == [vtype |-> "DEL", raw |-> None]

IsDeletedValue(v) == v.vtype = "DEL"

\* Pair(key=key, value=value): one record of the append-only log.
Pair(key, value) == [key |-> key, value |-> value]

NoTags == EmptyDict

TagDicts == {NoTags} \cup {Put(NoTags, t, v) : t \in TagNames, v \in TagValues}

\* Data(key, value=raw, tags=tags, is_deleted=is_deleted)
Data(key, raw, tags, is_deleted) ==
    [value |-> IF raw = None THEN NoneValue ELSE Value(raw),
     tags |-> tags,
     is_deleted |-> is_deleted,
     primary_key |-> key]

\* None where a Data is expected.
NoneData == [value |-> NoneValue, tags |-> NoTags, is_deleted |-> FALSE, primary_key |-> None]

\* ----------------------------------------------------------------- layers
\* A layer instance.  name/threshold: BaseLayer; text/exists: the log file of an
\* AOLFileLayer (its records, and whether the file is on disk); mem (_mem),
\* keys (_keys), revision (_revision), search (_search): MemLayer.  revLast is
\* the key of the last item of the _revision dict (its iteration order).
NewLayer(name, threshold) ==
    [name |-> name,
     threshold |-> threshold,
     text |-> << >>,
     exists |-> (name = "aol"),
     mem |-> EmptyDict,
     keys |-> {},
     revision |-> EmptyDict,
     revLast |-> None,
     search |-> [t \in TagNames |-> [v \in TagValues |-> {}]]]

\* ---- AOLFileLayer
\* the fd property: opening the file creates it when it does not exist.
Fd(l) == [l EXCEPT !.exists = TRUE]

RECURSIVE AOLQueryFrom(_, _, _, _)
AOLQueryFrom(text, key, i, value) ==
    IF i > Len(text) THEN value
    ELSE AOLQueryFrom(text, key, i + 1, IF text[i].key = key THEN text[i].value ELSE value)

AOLQuery(l, key) == AOLQueryFrom(l.text, key, 1, NoneValue)

AOLContains(l, key) == AOLQuery(l, key) # NoneValue

RECURSIVE AOLPool(_, _, _)
AOLPool(text, i, pool) ==
    IF i > Len(text) THEN pool
    ELSE AOLPool(text, i + 1,
                 IF IsDeletedValue(text[i].value) THEN pool \ {text[i].key}
                 ELSE pool \cup {text[i].key})

AOLCount(l) == Cardinality(AOLPool(l.text, 1, {}))

AOLCapacity(l) == Len(l.text)

AOLInsert(l, key, value, force) ==
    IF ~force /\ AOLContains(l, key)
    THEN [layer |-> Fd(l), result |-> "DuplicateKey"]
    ELSE [layer |-> [Fd(l) EXCEPT !.text = Append(@, Pair(key, value))], result |-> "ok"]

AOLDelete(l, key) ==
    [layer |-> [Fd(l) EXCEPT !.text = Append(@, Pair(key, DeletedValue))], result |-> "ok"]

\* mutant: purge empties the log
AOLPurgeTruncates(l) == [layer |-> [Fd(l) EXCEPT !.text = << >>], result |-> "ok"]

AOLPurge(l) == [layer |-> l, result |-> "NotImplementedError"]

\* sorted(pairs, reverse=desc): a stable sort on the key
RECURSIVE SortedPairs(_, _, _)
SortedPairs(text, ks, desc) ==
    IF ks = {} THEN << >>
    ELSE LET k == CHOOSE x \in ks : \A y \in ks : IF desc THEN y <= x ELSE x <= y IN
         SelectSeq(text, LAMBDA p : p.key = k) \o SortedPairs(text, ks \ {k}, desc)

\* list(layer.iterate(desc=desc, based=based)): the generator raises on its
\* first step, before the file is touched, when based is given
AOLIterate(l, desc, based) ==
    IF based # None
    THEN [layer |-> l, result |-> "ValueError", items |-> << >>]
    ELSE [layer |-> Fd(l), result |-> "ok", items |-> SortedPairs(l.text, Keys, desc)]

\* mutant: the file is always opened with mode "w+b", which truncates it
FileOpenTruncate(l, threshold) ==
    [NewLayer(l.name, threshold) EXCEPT !.text = << >>, !.exists = TRUE]

\* A new instance over the path of l (after l.close()): __init__ opens the
\* file with "r+b" when it exists, which keeps its records, else creates it;
\* open() writes the header of an empty file and reads the one of any other.
FileOpen(l, threshold) ==
    [NewLayer(l.name, threshold) EXCEPT
       !.text = IF l.exists THEN l.text ELSE << >>,
       !.exists = TRUE]

AOLUnlink(l) ==
    IF l.exists
    THEN [layer |-> [l EXCEPT !.exists = FALSE, !.text = << >>], result |-> "ok"]
    ELSE [layer |-> l, result |-> "FileNotFoundError"]

\* ---- MemLayer
MemLen(l) == Cardinality(l.keys)

MemContains(l, key) == key \in l.keys

MemCap(l) == Cardinality(DOMAIN l.mem)

\* mutant: the record is filed under its primary key instead of its id
MemInsertByKey(l, data, uid) ==
    LET pk == data.primary_key IN
    [l EXCEPT
       !.mem = Put(@, pk, data),
       !.keys = @ \cup {pk},
       !.revision = Put(@, pk, Get(@, pk, << >>) \o <<data>>),
       !.revLast = IF pk \in DOMAIN l.revision THEN @ ELSE pk,
       !.search = [t \in TagNames |-> [v \in TagValues |->
                     IF t \in DOMAIN data.tags /\ data.tags[t] = v
                     THEN l.search[t][v] \cup {pk}
                     ELSE l.search[t][v]]]]

\* mutant: a full layer refuses the insert, whatever the key
MemInsertUnlessFull(l, data, uid) ==
    IF l.threshold # None /\ Cardinality(DOMAIN l.mem) >= l.threshold THEN l
    ELSE LET pk == data.primary_key IN
         [l EXCEPT
            !.mem = Put(@, uid, data),
            !.keys = @ \cup {pk},
            !.revision = Put(@, pk, Get(@, pk, << >>) \o <<data>>),
            !.revLast = IF pk \in DOMAIN l.revision THEN @ ELSE pk,
            !.search = [t \in TagNames |-> [v \in TagValues |->
                          IF t \in DOMAIN data.tags /\ data.tags[t] = v
                          THEN l.search[t][v] \cup {pk}
                          ELSE l.search[t][v]]]]

MemInsert(l, data, uid) ==
    LET pk == data.primary_key IN
    [l EXCEPT
       !.mem = Put(@, uid, data),
       !.keys = @ \cup {pk},
       !.revision = Put(@, pk, Get(@, pk, << >>) \o <<data>>),
       !.revLast = IF pk \in DOMAIN l.revision THEN @ ELSE pk,
       !.search = [t \in TagNames |-> [v \in TagValues |->
                     IF t \in DOMAIN data.tags /\ data.tags[t] = v
                     THEN l.search[t][v] \cup {pk}
                     ELSE l.search[t][v]]]]

\* mutant: the key is taken out of the tag postings but stays in _keys
MemDeleteKeepsKey(l, key, uid) ==
    LET l1 == MemInsert(l, Data(key, None, NoTags, TRUE), uid) IN
    [l1 EXCEPT
       !.search = [t \in TagNames |-> [v \in TagValues |-> l1.search[t][v] \ {key}]]]

MemDelete(l, key, uid) ==
    LET l1 == MemInsert(l, Data(key, None, NoTags, TRUE), uid) IN
    [l1 EXCEPT
       !.keys = @ \ {key},
       !.search = [t \in TagNames |-> [v \in TagValues |-> l1.search[t][v] \ {key}]]]

\* mutant: the head of the history is read instead of its last entry
MemLatestOldest(l, key) ==
    LET data == Get(l.revision, key, << >>) IN
    IF data = << >> THEN NoneData
    ELSE IF data[1].is_deleted THEN NoneData ELSE data[1]

MemLatest(l, key) ==
    LET data == Get(l.revision, key, << >>) IN
    IF data = << >> THEN NoneData
    ELSE IF data[Len(data)].is_deleted THEN NoneData ELSE data[Len(data)]

\* mutant: the revisions are returned oldest first
MemRevisionOldestFirst(l, key) == Get(l.revision, key, << >>)

MemRevision(l, key) == Reverse(Get(l.revision, key, << >>))

MemSearch(l, name, key) == IF name \in TagNames /\ key \in TagValues THEN l.search[name][key] ELSE {}

MemRaw(l, uid) == Get(l.mem, uid, NoneData)

\* mutant: the newest of the revisions kept is dropped as well
MemPurgeDropsNewest(l, pick) ==
    LET live == IF DOMAIN l.revision = {} THEN {} ELSE l.keys
        all  == IF DOMAIN l.revision = {} THEN << >>
                ELSE SelectSeq(l.revision[l.revLast], LAMBDA r : ~r.is_deleted)
        kept == IF all = << >> THEN << >> ELSE SubSeq(all, 1, Len(all) - 1)
        uids == {u \in DOMAIN l.mem : l.mem[u].primary_key \in l.keys}
    IN [l EXCEPT
          !.revision = [k \in live |-> kept],
          !.revLast = IF live = {} THEN None
                      ELSE IF pick \in live THEN pick ELSE CHOOSE k \in live : TRUE,
          !.mem = [u \in uids |-> l.mem[u]]]

\* The dict comprehension of purge rebinds key in its inner loop: every key of
\* _keys ends up with the filtered revisions of the last item of _revision.
\* The new dict iterates in the order of the set _keys: pick names its last key.
MemPurge(l, pick) ==
    LET kept == IF DOMAIN l.revision = {} THEN << >>
                ELSE SelectSeq(l.revision[l.revLast], LAMBDA r : ~r.is_deleted)
        live == IF DOMAIN l.revision = {} THEN {} ELSE l.keys
        uids == {u \in DOMAIN l.mem : l.mem[u].primary_key \in l.keys}
    IN [l EXCEPT
          !.revision = [k \in live |-> kept],
          !.revLast = IF live = {} THEN None
                      ELSE IF pick \in live THEN pick ELSE CHOOSE k \in live : TRUE,
          !.mem = [u \in uids |-> l.mem[u]]]

\* The MemLayer side of the key/value interface Storage calls (capacity, count,
\* query, insert(key, value, force), unlink).
MemCapacity(l) == MemCap(l)

MemCount(l) == MemLen(l)

\* query(key): the value of the key's last revision, the tombstone included.
MemQuery(l, key) ==
    LET data == Get(l.revision, key, << >>) IN
    IF data = << >> THEN NoneValue
    ELSE IF data[Len(data)].is_deleted THEN DeletedValue
    ELSE IF data[Len(data)].value = NoneValue THEN Value(None)
    ELSE data[Len(data)].value

MemInsertKV(l, key, value, force, uid) ==
    [layer |-> MemInsert(l, Data(key, value.raw, NoTags, FALSE), uid), result |-> "ok"]

MemUnlink(l) == [layer |-> NewLayer(l.name, l.threshold), result |-> "ok"]

\* dup(): a new, empty layer of the prototype's kind and threshold.
Dup(l) == NewLayer(l.name, l.threshold)

\* ---- BaseLayer: the interface, dispatched on the layer class
Capacity(l) == IF l.name = "aol" THEN AOLCapacity(l) ELSE MemCapacity(l)

Count(l) == IF l.name = "aol" THEN AOLCount(l) ELSE MemCount(l)

Contains(l, key) == IF l.name = "aol" THEN AOLContains(l, key) ELSE MemContains(l, key)

Query(l, key) == IF l.name = "aol" THEN AOLQuery(l, key) ELSE MemQuery(l, key)

IsFull(l) == l.threshold # None /\ Capacity(l) >= l.threshold

LayerInsert(l, key, value, force, uid) ==
    IF l.name = "aol" THEN AOLInsert(l, key, value, force)
    ELSE MemInsertKV(l, key, value, force, uid)

LayerDelete(l, key, uid) ==
    IF l.name = "aol" THEN AOLDelete(l, key)
    ELSE [layer |-> MemDelete(l, key, uid), result |-> "ok"]

LayerPurge(l, pick) ==
    IF l.name = "aol" THEN AOLPurge(l)
    ELSE [layer |-> MemPurge(l, pick), result |-> "ok"]

LayerUnlink(l) == IF l.name = "aol" THEN AOLUnlink(l) ELSE MemUnlink(l)

\* Reading a file layer (is_full with a threshold, query, count) goes through fd.
Read(l) == IF l.name = "aol" THEN Fd(l) ELSE l

\* ---- Layer.open
\* urlparse(url).scheme
Scheme(url) == IF url = "aol://f" THEN "aol" ELSE "mem"

\* _cached_instance = {}
NoCache == [url \in URLs |-> None]

\* layer(uri, threshold=threshold): a file layer opens the file of its path,
\* which the instances of the same url share
Construct(heap, url, threshold) ==
    LET same == {j \in 1 .. Len(heap) : heap[j].name = "aol" /\ Scheme(url) = "aol"} IN
    IF same = {} THEN NewLayer(Scheme(url), threshold)
    ELSE FileOpen(heap[CHOOSE j \in same : TRUE], threshold)

\* mutant: cached is ignored and every open goes through the cache
LayerOpenAlwaysCached(heap, cache, url, threshold, cached) ==
    IF cache[url] = None
    THEN [result |-> "ok", cache |-> [cache EXCEPT ![url] = Len(heap) + 1],
          layers |-> Append(heap, Construct(heap, url, threshold)), target |-> Len(heap) + 1]
    ELSE [result |-> "ok", cache |-> cache, layers |-> heap, target |-> cache[url]]

\* Layer.open(url, threshold=threshold, cached=cached).  heap: the instances
\* constructed so far; target: the one returned.
LayerOpen(heap, cache, url, threshold, cached) ==
    IF cache[url] = None \/ ~cached
    THEN IF ~cached
         THEN [result |-> "ok", cache |-> cache,
               layers |-> Append(heap, Construct(heap, url, threshold)), target |-> Len(heap) + 1]
         ELSE [result |-> "ok", cache |-> [cache EXCEPT ![url] = Len(heap) + 1],
               layers |-> Append(heap, Construct(heap, url, threshold)), target |-> Len(heap) + 1]
    ELSE [result |-> "ok", cache |-> cache, layers |-> heap, target |-> cache[url]]

\* ---------------------------------------------------------------- Storage
\* mutant: the scan keeps the last layer that is not full instead of the first
FirstAvailableLast(ls) ==
    IF \E i \in 1 .. Len(ls) : ~IsFull(ls[i])
    THEN CHOOSE i \in 1 .. Len(ls) :
            ~IsFull(ls[i]) /\ \A j \in (i + 1) .. Len(ls) : IsFull(ls[j])
    ELSE None

\* the index of the first layer that is not full; None when all are full.
FirstAvailable(ls) ==
    IF \E i \in 1 .. Len(ls) : ~IsFull(ls[i])
    THEN CHOOSE i \in 1 .. Len(ls) : ~IsFull(ls[i]) /\ \A j \in 1 .. (i - 1) : IsFull(ls[j])
    ELSE None

\* is_full evaluates capacity (and so reads the file) only with a threshold set.
Scanned(ls, n) ==
    [i \in 1 .. Len(ls) |-> IF i <= n /\ ls[i].threshold # None THEN Read(ls[i]) ELSE ls[i]]

\* mutant: with every layer full and no default layer, the last layer is
\* returned instead of raising ThresholdLimit
StorageLayerNoRaise(ls, dl) ==
    LET idx == FirstAvailable(ls) IN
    IF idx # None THEN [layers |-> Scanned(ls, idx), index |-> idx]
    ELSE IF dl # << >>
    THEN [layers |-> Append(Scanned(ls, Len(ls)), Dup(dl[1])), index |-> Len(ls) + 1]
    ELSE [layers |-> Scanned(ls, Len(ls)), index |-> Len(ls)]

\* mutant: the duplicate of the default layer is put first in the list
StorageLayerPrepend(ls, dl) ==
    LET idx == FirstAvailable(ls) IN
    IF idx # None THEN [layers |-> Scanned(ls, idx), index |-> idx]
    ELSE IF dl # << >>
    THEN [layers |-> <<Dup(dl[1])>> \o Scanned(ls, Len(ls)), index |-> 1]
    ELSE [layers |-> Scanned(ls, Len(ls)), index |-> None]

\* Storage.layer: index None stands for raise ThresholdLimit.
StorageLayer(ls, dl) ==
    LET idx == FirstAvailable(ls) IN
    IF idx # None THEN [layers |-> Scanned(ls, idx), index |-> idx]
    ELSE IF dl # << >>
    THEN [layers |-> Append(Scanned(ls, Len(ls)), Dup(dl[1])), index |-> Len(ls) + 1]
    ELSE [layers |-> Scanned(ls, Len(ls)), index |-> None]

StorageContains(ls, key) == \E i \in 1 .. Len(ls) : Contains(ls[i], key)

\* mutant: only the first layer is counted
StorageCountFirst(ls) == IF ls = << >> THEN 0 ELSE Count(Head(ls))

RECURSIVE StorageCount(_)
StorageCount(ls) == IF ls = << >> THEN 0 ELSE Count(Head(ls)) + StorageCount(Tail(ls))

RECURSIVE StorageCapacity(_)
StorageCapacity(ls) == IF ls = << >> THEN 0 ELSE Capacity(Head(ls)) + StorageCapacity(Tail(ls))

StorageInsert(ls, dl, key, raw, force, uid) ==
    LET s == StorageLayer(ls, dl) IN
    IF s.index = None
    THEN [result |-> "ThresholdLimit", layers |-> s.layers, target |-> None]
    ELSE LET r == LayerInsert(s.layers[s.index], key, Value(raw), force, uid) IN
         [result |-> r.result,
          layers |-> [s.layers EXCEPT ![s.index] = r.layer], target |-> s.index]

StorageDelete(ls, dl, key, uid) ==
    LET s == StorageLayer(ls, dl) IN
    IF s.index = None
    THEN [result |-> "ThresholdLimit", layers |-> s.layers, target |-> None]
    ELSE LET r == LayerDelete(s.layers[s.index], key, uid) IN
         [result |-> r.result,
          layers |-> [s.layers EXCEPT ![s.index] = r.layer], target |-> s.index]

\* the layer whose query answers: the first with a value that is not None.
RECURSIVE QueryIndex(_, _, _)
QueryIndex(ls, key, i) ==
    IF i > Len(ls) THEN None
    ELSE IF Query(ls[i], key) # NoneValue THEN i
    ELSE QueryIndex(ls, key, i + 1)

\* mutant: the scan does not stop at the first answer, the last one wins
StorageQueryLast(ls, key) ==
    LET hits == {i \in 1 .. Len(ls) : Query(ls[i], key) # NoneValue} IN
    IF hits = {} THEN NoneValue
    ELSE Query(ls[CHOOSE i \in hits : \A j \in hits : j <= i], key)

StorageQuery(ls, key) ==
    LET i == QueryIndex(ls, key, 1) IN
    IF i = None THEN NoneValue ELSE Query(ls[i], key)

\* revisions(key) of a file layer: every record of the key, newest first.
AOLRevision(l, key) ==
    LET hits == SelectSeq(l.text, LAMBDA p : p.key = key) IN
    Reverse([i \in 1 .. Len(hits) |->
               [value |-> hits[i].value, tags |-> NoTags,
                is_deleted |-> IsDeletedValue(hits[i].value), primary_key |-> key]])

Revision(l, key) == IF l.name = "aol" THEN AOLRevision(l, key) ELSE MemRevision(l, key)

\* Storage.revision(key): the layers' revisions, concatenated in declared order.
RECURSIVE StorageRevision(_, _)
StorageRevision(ls, key) ==
    IF ls = << >> THEN << >> ELSE Revision(Head(ls), key) \o StorageRevision(Tail(ls), key)

\* for layer in self.layers: layer.purge(): the first exception ends the loop.
RECURSIVE PurgeFrom(_, _, _)
PurgeFrom(ls, i, picks) ==
    IF i > Len(ls) THEN [result |-> "ok", layers |-> ls]
    ELSE LET r == LayerPurge(ls[i], picks[i]) IN
         IF r.result # "ok" THEN [result |-> r.result, layers |-> [ls EXCEPT ![i] = r.layer]]
         ELSE PurgeFrom([ls EXCEPT ![i] = r.layer], i + 1, picks)

StoragePurge(ls, picks) == PurgeFrom(ls, 1, picks)

\* for layer in self.layers: layer.unlink(): the first exception ends the loop.
RECURSIVE UnlinkFrom(_, _)
UnlinkFrom(ls, i) ==
    IF i > Len(ls) THEN [result |-> "ok", layers |-> ls]
    ELSE LET r == LayerUnlink(ls[i]) IN
         IF r.result # "ok" THEN [result |-> r.result, layers |-> [ls EXCEPT ![i] = r.layer]]
         ELSE UnlinkFrom([ls EXCEPT ![i] = r.layer], i + 1)

StorageUnlink(ls) == UnlinkFrom(ls, 1)

\* ------------------------------------------------------------------ bytes
\* A bytes object, held as runs <<unit, n>>: n copies of unit, where unit is
\* <<b>> for the byte b, <<"zlib", raw>> for a byte of the zlib stream of raw
\* and <<"adler32", data>> for a byte of the packed Adler-32 of data.
Run(unit, n) == IF n > 0 THEN <<<<unit, n>>>> ELSE << >>

\* a + b: the runs that meet at the seam merge
Cat(a, b) ==
    IF a = << >> THEN b
    ELSE IF b = << >> THEN a
    ELSE IF a[Len(a)][1] = b[1][1]
         THEN SubSeq(a, 1, Len(a) - 1) \o <<<<b[1][1], a[Len(a)][2] + b[1][2]>>>> \o Tail(b)
         ELSE a \o b

\* len(data)
RECURSIVE BLen(_)
BLen(bs) ==
    IF bs = << >> THEN 0
    ELSE IF Len(bs) = 1 THEN bs[1][2]
    ELSE BLen(SubSeq(bs, 1, Len(bs) \div 2)) + BLen(SubSeq(bs, (Len(bs) \div 2) + 1, Len(bs)))

\* data[:n]
RECURSIVE Take(_, _)
Take(bs, n) ==
    IF n <= 0 \/ bs = << >> THEN << >>
    ELSE IF Head(bs)[2] <= n THEN <<Head(bs)>> \o Take(Tail(bs), n - Head(bs)[2])
    ELSE <<<<Head(bs)[1], n>>>>

\* data[n:]
RECURSIVE Drop(_, _)
Drop(bs, n) ==
    IF n <= 0 \/ bs = << >> THEN bs
    ELSE IF Head(bs)[2] <= n THEN Drop(Tail(bs), n - Head(bs)[2])
    ELSE <<<<Head(bs)[1], Head(bs)[2] - n>>>> \o Tail(bs)

\* data[i:j]
Slice(bs, i, j) == Take(Drop(bs, i), j - i)

\* the bytes one by one
RECURSIVE Expand(_)
Expand(bs) ==
    IF bs = << >> THEN << >>
    ELSE IF Len(bs) = 1 THEN [i \in 1 .. bs[1][2] |-> bs[1][1]]
    ELSE Expand(SubSeq(bs, 1, Len(bs) \div 2)) \o Expand(SubSeq(bs, (Len(bs) \div 2) + 1, Len(bs)))

\* the k-th smallest of a set of positions
Kth(S, k) == CHOOSE i \in S : Cardinality({j \in S : j <= i}) = k

\* bytes(list of byte values): a run starts where the byte changes
FromList(list) ==
    LET starts == SelectSeq([i \in 1 .. Len(list) |-> i],
                            LAMBDA i : i = 1 \/ list[i] # list[i - 1])
        end(k) == IF k < Len(starts) THEN starts[k + 1] ELSE Len(list) + 1 IN
    [k \in 1 .. Len(starts) |-> <<<<list[starts[k]]>>, end(k) - starts[k]>>]

\* --------------------------------------------------------------- UniqueID
\* An int n >= 0 of any width, held as its 5-bit groups, least significant
\* first, without leading zero groups: n & 0x1F is the head, n >> 5 the tail,
\* and n > 0 holds of every non-empty one.
LENGTH == 26

ENCODING_TABLE ==
    <<"0", "1", "2", "3", "4", "5", "6", "7", "8", "9", "A", "B", "C", "D", "E", "F",
      "G", "H", "J", "K", "M", "N", "P", "Q", "R", "S", "T", "V", "W", "X", "Y", "Z">>

\* CrockfordBase32._encode(key): the characters, least significant first
RECURSIVE CrockfordDigits(_)
CrockfordDigits(key) ==
    IF key = << >> THEN << >>
    ELSE <<ENCODING_TABLE[Head(key) + 1]>> \o CrockfordDigits(Tail(key))

\* CrockfordBase32.encode(key, size)
CrockfordEncode(key, size) ==
    LET chars == Reverse(CrockfordDigits(key)) IN
    IF size # None /\ Len(chars) < size
    THEN chars \o [i \in 1 .. (size - Len(chars)) |-> ENCODING_TABLE[1]]
    ELSE chars

\* UniqueID._validate(key): key & (2^128 - 1) == key
UniqueIDValid(key) == Len(key) < LENGTH \/ (Len(key) = LENGTH /\ key[LENGTH] < 8)

\* str(UniqueID(key))
UniqueIDStr(key) == CrockfordEncode(key, LENGTH)

\* -------------------------------------------------------------------- Key
\* what a call returned, or the exception it raised
Ok(x) == <<"ok", x>>

Raise(e) == <<"raise", e>>

\* The raw values of a Key: <<"bool", b>>, <<"int", n>> and <<"str", s>>, s
\* held as runs <<<<c>>, n>> of n copies of the code point c.
KeyTypeCap(ktype) ==
    CASE ktype = "BOOL" -> 1
      [] ktype = "WORD" -> 2
      [] ktype = "INT" -> 16
      [] ktype = "STR" -> 64
      [] ktype = "TEXT" -> 256

KeyTypeDetect(raw) ==
    CASE raw[1] = "bool" -> "BOOL"
      [] raw[1] = "int" /\ -32768 <= raw[2] /\ raw[2] <= 32767 -> "WORD"
      [] raw[1] = "int" -> "INT"
      [] raw[1] = "str" /\ BLen(raw[2]) < 64 -> "STR"
      [] raw[1] = "str" /\ BLen(raw[2]) < 256 -> "TEXT"
      [] OTHER -> "NotImplementedError"

\* Key(raw, ktype); "None" stands for ktype=None
Key(raw, ktype) == [raw |-> raw, ktype |-> IF ktype = "None" THEN KeyTypeDetect(raw) ELSE ktype]

\* bool(raw), int(raw) and str(raw); int(str) is not drawn
PyBool(raw) ==
    CASE raw[1] = "bool" -> raw[2]
      [] raw[1] = "int" -> raw[2] # 0
      [] raw[1] = "str" -> raw[2] # << >>

PyInt(raw) ==
    CASE raw[1] = "bool" -> IF raw[2] THEN 1 ELSE 0
      [] raw[1] = "int" -> raw[2]

\* the characters of str(n), n >= 0
RECURSIVE Decimal(_)
Decimal(n) == IF n < 10 THEN <<48 + n>> ELSE Decimal(n \div 10) \o <<48 + (n % 10)>>

PyStr(raw) ==
    CASE raw[1] = "str" -> raw[2]
      [] raw[1] = "int" -> FromList(IF raw[2] < 0 THEN <<45>> \o Decimal(-raw[2]) ELSE Decimal(raw[2]))
      [] raw[1] = "bool" -> FromList(IF raw[2] THEN <<84, 114, 117, 101>> ELSE <<70, 97, 108, 115, 101>>)

\* Key.value
KeyValue(k) ==
    CASE k.ktype = "BOOL" -> <<"bool", PyBool(k.raw)>>
      [] k.ktype \in {"WORD", "INT"} -> <<"int", PyInt(k.raw)>>
      [] k.ktype \in {"STR", "TEXT"} -> <<"str", PyStr(k.raw)>>

\* the low bytes of n, least significant first, and what is left of n above
\* them (two's complement: -1 for a negative n that fits)
RECURSIVE LittleEndian(_, _)
LittleEndian(n, length) ==
    IF length = 0 THEN << >> ELSE <<n % 256>> \o LittleEndian(n \div 256, length - 1)

RECURSIVE Above(_, _)
Above(n, length) == IF length = 0 THEN n ELSE Above(n \div 256, length - 1)

\* n.to_bytes(length, byteorder="big", signed=True)
IntToBytes(n, length) ==
    LET le == LittleEndian(n, length) IN
    IF \/ Above(n, length) = 0 /\ le[length] < 128
       \/ Above(n, length) = -1 /\ le[length] >= 128
    THEN Ok(FromList(Reverse(le)))
    ELSE Raise("OverflowError")

\* int.from_bytes(data, byteorder="big", signed=True)
RECURSIVE Horner(_, _)
Horner(acc, list) == IF list = << >> THEN acc ELSE Horner((acc * 256) + Head(list)[1], Tail(list))

IntFromBytes(data) ==
    LET list == Expand(data) IN
    IF list = << >> THEN 0 ELSE Horner(IF list[1][1] >= 128 THEN -1 ELSE 0, list)

\* the UTF-8 bytes of one code point
Utf8Char(c) ==
    IF c < 128 THEN <<c>>
    ELSE IF c < 2048 THEN <<192 + (c \div 64), 128 + (c % 64)>>
    ELSE <<224 + (c \div 4096), 128 + ((c \div 64) % 64), 128 + (c % 64)>>

\* s.encode("utf-8")
RECURSIVE Utf8Encode(_)
Utf8Encode(s) ==
    IF s = << >> THEN << >>
    ELSE LET enc == Utf8Char(Head(s)[1][1])
             n == Head(s)[2] IN
         Cat(FromList([i \in 1 .. n * Len(enc) |-> enc[((i - 1) % Len(enc)) + 1]]),
             Utf8Encode(Tail(s)))

\* the code points of well-formed UTF-8 bytes: one for each lead byte
Utf8Points(list) ==
    LET leads == SelectSeq([i \in 1 .. Len(list) |-> i],
                           LAMBDA i : list[i] < 128 \/ list[i] >= 192)
        point(i) == IF list[i] < 128 THEN list[i]
                    ELSE IF list[i] < 224 THEN ((list[i] - 192) * 64) + (list[i + 1] - 128)
                    ELSE ((list[i] - 224) * 4096) + ((list[i + 1] - 128) * 64) + (list[i + 2] - 128) IN
    [k \in 1 .. Len(leads) |-> point(leads[k])]

\* data.decode("utf-8")
Utf8Decode(data) ==
    LET list == Expand(data) IN FromList(Utf8Points([i \in 1 .. Len(list) |-> list[i][1]]))

\* s.rstrip("\x00")
RStripNul(s) == IF s # << >> /\ s[Len(s)][1] = <<0>> THEN SubSeq(s, 1, Len(s) - 1) ELSE s

\* Key.to_bytes()
KeyToBytes(k) ==
    CASE k.ktype = "BOOL" -> IntToBytes(PyInt(KeyValue(k)), KeyTypeCap(k.ktype))
      [] k.ktype \in {"WORD", "INT"} -> IntToBytes(KeyValue(k)[2], KeyTypeCap(k.ktype))
      [] k.ktype \in {"STR", "TEXT"} ->
            LET data == Utf8Encode(KeyValue(k)[2]) IN
            Ok(Cat(data, Run(<<0>>, KeyTypeCap(k.ktype) - BLen(data))))

\* Key.from_bytes(data)
KeyFromBytes(data) ==
    CASE BLen(data) = 1 -> Ok(Key(<<"bool", IntFromBytes(data) # 0>>, "BOOL"))
      [] BLen(data) = 2 -> Ok(Key(<<"int", IntFromBytes(data)>>, "WORD"))
      [] BLen(data) = 16 -> Ok(Key(<<"int", IntFromBytes(data)>>, "INT"))
      [] BLen(data) = 64 -> Ok(Key(<<"str", RStripNul(Utf8Decode(data))>>, "STR"))
      [] BLen(data) = 256 -> Ok(Key(<<"str", RStripNul(Utf8Decode(data))>>, "TEXT"))
      [] OTHER -> Raise("NotImplementedError")

\* KeyType.value, the ordinal the types are compared by (KeyType.__gt__)
KeyTypeValue(ktype) ==
    CASE ktype = "BOOL" -> 0
      [] ktype = "WORD" -> 1
      [] ktype = "INT" -> 2
      [] ktype = "STR" -> 3
      [] ktype = "TEXT" -> 4

\* max(a, b) of two KeyTypes: b when b > a, else a
KeyTypeMax(a, b) == IF KeyTypeValue(b) > KeyTypeValue(a) THEN b ELSE a

\* Key.cast(ktype)
KeyCast(k, ktype) ==
    CASE ktype = "BOOL" -> Key(<<"bool", PyBool(KeyValue(k))>>, ktype)
      [] ktype \in {"WORD", "INT"} -> Key(<<"int", PyInt(KeyValue(k))>>, ktype)
      [] ktype \in {"STR", "TEXT"} /\ k.ktype = "BOOL" ->
            Key(<<"str", PyStr(<<"int", PyInt(KeyValue(k))>>)>>, ktype)
      [] ktype \in {"STR", "TEXT"} -> Key(<<"str", PyStr(KeyValue(k))>>, ktype)

\* x < y of two values of one Python type: bools and ints by number, strings
\* by code point, a proper prefix first
PyLess(x, y) ==
    CASE x[1] = "bool" -> PyInt(x) < PyInt(y)
      [] x[1] = "int" -> x[2] < y[2]
      [] x[1] = "str" ->
            LET s == Expand(x[2])
                t == Expand(y[2]) IN
            \E i \in 1 .. Len(t) :
               /\ i <= Len(s) + 1
               /\ \A j \in 1 .. (i - 1) : s[j] = t[j]
               /\ (i = Len(s) + 1 \/ s[i][1] < t[i][1])

\* Key.__eq__(other), other a Key
KeyEq(a, b) ==
    LET ktype == KeyTypeMax(a.ktype, b.ktype) IN
    KeyValue(KeyCast(a, ktype)) = KeyValue(KeyCast(b, ktype))

\* Key.__lt__(other), other a Key
KeyLt(a, b) ==
    LET ktype == KeyTypeMax(a.ktype, b.ktype) IN
    PyLess(KeyValue(KeyCast(a, ktype)), KeyValue(KeyCast(b, ktype)))

\* ------------------------------------------------------------------ Value
\* The raw of a Value: <<"None">> or <<"bytes", data>>.
ValueTypeInt(vtype) ==
    CASE vtype = "NIL" -> 0
      [] vtype = "RAW" -> 1
      [] vtype = "CMP" -> 2
      [] vtype = "DEL" -> 3

\* ValueType(n), n < 4
ValueTypeOf(n) == CHOOSE vtype \in {"NIL", "RAW", "CMP", "DEL"} : ValueTypeInt(vtype) = n

\* Value(raw, vtype); "None" stands for vtype=None
ValueInit(raw, vtype) ==
    [vtype |-> IF raw[1] = "bytes" /\ BLen(raw[2]) > 16777216 THEN "CMP"
               ELSE IF vtype # "None" THEN vtype
               ELSE IF raw[1] = "None" THEN "NIL" ELSE "RAW",
     raw |-> raw]

\* zlib.compress(raw): for the payloads of at most two bytes that are drawn,
\* a stream of len(raw) + 8 bytes
Compress(data) == Run(<<"zlib", data>>, BLen(data) + 8)

\* zlib.decompress(payload)
Decompress(payload) ==
    IF /\ Len(payload) = 1
       /\ Len(payload[1][1]) = 2
       /\ payload[1][1][1] = "zlib"
       /\ payload[1][2] = BLen(payload[1][1][2]) + 8
    THEN Ok(payload[1][1][2])
    ELSE Raise("zlib.error")

\* struct.pack(">I", n)
PackU32(n) ==
    FromList(<<(n \div 16777216) % 256, (n \div 65536) % 256, (n \div 256) % 256, n % 256>>)

\* struct.unpack(">I", data), as <<head >> 24, head & 0xFFFFFF>>
UnpackU32(data) ==
    LET list == Expand(data) IN
    <<list[1][1], (list[2][1] * 65536) + (list[3][1] * 256) + list[4][1]>>

\* struct.pack(">I", Value.checksum(data))
PackChecksum(data) == Run(<<"adler32", data>>, 4)

\* Value.to_bytes()
ValueToBytes(v) ==
    LET data == CASE v.vtype \in {"NIL", "DEL"} -> << >>
                  [] v.vtype = "RAW" -> v.raw[2]
                  [] v.vtype = "CMP" -> Compress(v.raw[2])
        head == (ValueTypeInt(v.vtype) * 16777216) + BLen(data)
        payload == Cat(PackU32(head), data)
        padding == Run(<<0>>, 32 - (BLen(payload) % 32)) IN
    Ok(Cat(Cat(payload, padding), PackChecksum(Cat(payload, padding))))

\* Value.from_bytes(data)
ValueFromBytes(data) ==
    IF BLen(data) < 32 THEN Raise("ValueError")
    ELSE LET head == UnpackU32(Take(data, 4))
             size == head[2]
             payload == Slice(data, 4, 4 + size)
             padding == 32 - ((4 + size) % 32)
             checksum == Drop(data, 4 + size + padding) IN
         IF head[1] > 3 THEN Raise("ValueError")
         ELSE IF BLen(data) < size + 4 THEN Raise("ValueError")
         ELSE IF checksum # PackChecksum(Take(data, 4 + size + padding)) THEN Raise("ValueError")
         ELSE CASE ValueTypeOf(head[1]) = "NIL" -> Ok(ValueInit(<<"None">>, "None"))
                [] ValueTypeOf(head[1]) = "DEL" -> Ok(ValueInit(<<"None">>, "DEL"))
                [] ValueTypeOf(head[1]) = "RAW" -> Ok(ValueInit(<<"bytes", payload>>, "None"))
                [] ValueTypeOf(head[1]) = "CMP" ->
                      IF Decompress(payload)[1] = "ok"
                      THEN Ok(ValueInit(<<"bytes", Decompress(payload)[2]>>, "CMP"))
                      ELSE Decompress(payload)

\* ------------------------------------------------- the file of a file layer
\* struct.pack("<I", n) and struct.unpack("<I", data)
PackU32LE(n) ==
    FromList(<<n % 256, (n \div 256) % 256, (n \div 65536) % 256, (n \div 16777216) % 256>>)

UnpackU32LE(data) ==
    LET list == Expand(data) IN
    list[1][1] + (list[2][1] * 256) + (list[3][1] * 65536) + (list[4][1] * 16777216)

\* Header.magic
HeaderMagic == FromList(<<48, 20, 21, 146>>)

\* struct.pack("<I", zlib.crc32(data))
PackCrc32(data) == Run(<<"crc32", data>>, 4)

\* Header(ord("A")).to_bytes(), meta_size as given: magic, version 1, type,
\* flags 0, meta size and the checksum of these twelve bytes
HeaderToBytes(meta_size) ==
    LET hdr == Cat(Cat(HeaderMagic, FromList(<<1, 65, 0, 0>>)), PackU32LE(meta_size)) IN
    Cat(hdr, PackCrc32(hdr))

\* Header.from_bytes(data): the meta size of the header read
HeaderFromBytes(data) ==
    IF BLen(data) # 16 THEN Raise("ValueError")
    ELSE IF Take(data, 4) # HeaderMagic THEN Raise("ValueError")
    ELSE IF Slice(data, 4, 5) # FromList(<<1>>) THEN Raise("ValueError")
    ELSE IF Drop(data, 12) # PackCrc32(Take(data, 12)) THEN Raise("ValueError")
    ELSE Ok(UnpackU32LE(Slice(data, 8, 12)))

\* BaseFileLayer.text_offset, block = 512
TextOffset(meta_size) ==
    LET offset == 16 + meta_size IN offset + ((512 - (offset % 512)) % 512)

\* Pair(key, value).to_bytes(), key and value as their codecs hold them
PairToBytes(key, value) ==
    LET payload == Cat(Cat(FromList(<<KeyTypeValue(key.ktype)>>), KeyToBytes(key)[2]),
                       ValueToBytes(value)[2]) IN
    Cat(Cat(PackU32LE(BLen(payload)), payload), Run(<<0>>, 2))

\* the end of Pair.from_bytes: the key and the value as decoded, or the
\* exception of the first that failed, and the terminator checked
PairDecoded(key, value, terminator) ==
    IF key[1] # "ok" THEN key
    ELSE IF value[1] # "ok" THEN value
    ELSE IF terminator # Run(<<0>>, 2) THEN Raise("ValueError")
    ELSE Ok(Pair(key[2], value[2]))

\* Pair.from_bytes(payload); keytype.capacity is the byte width KeyType.cap
PairFromBytes(payload) ==
    IF BLen(payload) < 4 THEN Raise("ValueError")
    ELSE IF BLen(payload) < 5 THEN Raise("struct.error")
    ELSE LET size == UnpackU32LE(Take(payload, 4))
             keytype == Expand(Slice(payload, 4, 5))[1] IN
         IF BLen(payload) < 6 + size THEN Raise("ValueError")
         ELSE IF Len(keytype) # 1 \/ keytype[1] > 4 THEN Raise("ValueError")
         ELSE LET ktype == CHOOSE t \in {"BOOL", "WORD", "INT", "STR", "TEXT"} :
                              KeyTypeValue(t) = keytype[1] IN
              PairDecoded(KeyFromBytes(Slice(payload, 5, 5 + KeyTypeCap(ktype))),
                          ValueFromBytes(Slice(payload, 5 + KeyTypeCap(ktype), 4 + size)),
                          Slice(payload, 4 + size, 4 + size + 2))

\* list(iter(layer)) over the text of the file: the pairs decoded one after
\* the other, each step dropping len(pair.to_bytes()) bytes; the exception of
\* the first pair that does not decode
RECURSIVE FilePairs(_, _)
RECURSIVE FilePairsAfter(_, _, _)
FilePairsAfter(text, pairs, pair) ==
    IF pair[1] # "ok" THEN pair
    ELSE FilePairs(Drop(text, BLen(PairToBytes(pair[2].key, pair[2].value))),
                   Append(pairs, pair[2]))

FilePairs(text, pairs) ==
    IF text = << >> THEN Ok(pairs) ELSE FilePairsAfter(text, pairs, PairFromBytes(text))

\* A file layer and the file system under it.  path: the file at the layer's
\* path, <<"missing">> or <<"file", bytes>>; fd: "open" while the instance
\* holds a descriptor (_fd is not None); header: <<"None">> while there is no
\* instance, else <<"Header", meta_size>> of its _header; fds: the descriptors
\* the process holds open on the path.
NoFileLayer(path) == [path |-> path, fd |-> "None", header |-> <<"None">>, fds |-> 0]

FileBytes(f) == IF f.path[1] = "file" THEN f.path[2] ELSE << >>

\* mutant: every use of fd opens the file again
FileFdReopens(f) ==
    [f EXCEPT !.path = IF @[1] = "file" THEN @ ELSE <<"file", << >>>>,
              !.fd = "open",
              !.fds = @ + 1]

\* the fd property: opens the file on first use, with mode "r+b" when it
\* exists and "w+b", which creates it, when it does not
FileFd(f) ==
    IF f.fd = "open" THEN f
    ELSE [f EXCEPT !.path = IF @[1] = "file" THEN @ ELSE <<"file", << >>>>,
                   !.fd = "open",
                   !.fds = @ + 1]

\* close(), also run by __del__
FileClose(f) == IF f.fd = "open" THEN [f EXCEPT !.fd = "None", !.fds = @ - 1] ELSE f

\* fd.seek(pos); fd.write(data), pos at or after the end of the file: the gap
\* reads as zero bytes
FileWrite(f, pos, data) ==
    [f EXCEPT !.path = <<"file", Cat(Cat(FileBytes(f), Run(<<0>>, pos - BLen(FileBytes(f)))), data)>>]

\* mutant: a header that does not validate is replaced by a fresh one
FileLayerInitRewrites(f) ==
    LET g == FileFd([FileClose(f) EXCEPT !.header = <<"Header", 0>>]) IN
    [result |-> "ok", file |-> [g EXCEPT !.path = <<"file", HeaderToBytes(0)>>]]

\* AOLFileLayer(uri): BaseFileLayer.__init__ and open().  The instance that
\* was there before is dropped, which closes it; so is the new one when the
\* header does not validate.
FileLayerInit(f) ==
    LET g == FileFd([FileClose(f) EXCEPT !.header = <<"Header", 0>>])
        header == Take(FileBytes(g), 16) IN
    IF header = << >>
    THEN [result |-> "ok", file |-> FileWrite(g, 0, HeaderToBytes(0))]
    ELSE IF HeaderFromBytes(header)[1] = "ok"
    THEN [result |-> "ok", file |-> [g EXCEPT !.header = <<"Header", HeaderFromBytes(header)[2]>>]]
    ELSE [result |-> HeaderFromBytes(header)[2], file |-> [FileClose(g) EXCEPT !.header = <<"None">>]]

\* the text property, read through fd
FileText(f) == Drop(FileBytes(FileFd(f)), TextOffset(f.header[2]))

\* list(iter(layer))
FileIter(f) == FilePairs(FileText(f), << >>)

\* query(key) over the pairs iterated: << >> for None, else <<value>> of the
\* last pair of the key
QueryPairs(pairs, key) ==
    IF pairs[1] # "ok" THEN pairs
    ELSE LET found == {i \in 1 .. Len(pairs[2]) : KeyEq(pairs[2][i].key, key)} IN
         Ok(IF found = {} THEN << >> ELSE <<pairs[2][Kth(found, Cardinality(found))].value>>)

FileQuery(f, key) == QueryPairs(FileIter(f), key)

\* count() over the pairs iterated: the keys whose last pair is not a
\* tombstone
CountPairs(pairs) ==
    IF pairs[1] # "ok" THEN pairs
    ELSE Ok(Cardinality({KeyValue(pairs[2][i].key) : i \in
               {i \in 1 .. Len(pairs[2]) :
                   /\ pairs[2][i].value.vtype # "DEL"
                   /\ \A j \in (i + 1) .. Len(pairs[2]) :
                         KeyValue(pairs[2][j].key) = KeyValue(pairs[2][i].key)
                            => pairs[2][j].value.vtype # "DEL"}}))

FileCount(f) == CountPairs(FileIter(f))

\* capacity: len(list(self.iterate()))
CapacityPairs(pairs) == IF pairs[1] # "ok" THEN pairs ELSE Ok(Len(pairs[2]))

FileCapacity(f) == CapacityPairs(FileIter(f))

\* seek_to_tell(); fd.write(pair.to_bytes()); fd.flush()
FileAppend(f, key, value) ==
    LET g == FileFd(f)
        pos == IF BLen(FileBytes(g)) < TextOffset(g.header[2])
               THEN TextOffset(g.header[2]) ELSE BLen(FileBytes(g)) IN
    FileWrite(g, pos, PairToBytes(key, value))

\* insert(key, value, force=force), found being what self.query(key) gave
InsertUnless(f, key, value, force, found) ==
    IF ~force /\ found[1] # "ok"
    THEN [result |-> found[2], file |-> FileFd(f)]
    ELSE IF ~force /\ found[2] # << >>
    THEN [result |-> "DuplicateKey", file |-> FileFd(f)]
    ELSE [result |-> "ok", file |-> FileAppend(f, key, value)]

FileInsert(f, key, value, force) == InsertUnless(f, key, value, force, FileQuery(f, key))

\* delete(key): value = Value(None); value.delete()
FileDelete(f, key) ==
    [result |-> "ok", file |-> FileAppend(f, key, ValueInit(<<"None">>, "DEL"))]

\* unlink(): close(), then path.unlink()
FileUnlink(f) ==
    IF FileClose(f).path[1] = "missing"
    THEN [result |-> "FileNotFoundError", file |-> FileClose(f)]
    ELSE [result |-> "ok", file |-> [FileClose(f) EXCEPT !.path = <<"missing">>]]

\* ------------------------------------------------------------------ state
VARIABLES
    layers,         \* Storage._layers
    default_layer,  \* Storage._default_layer: << >> for None, <<layer>> otherwise
    clock,          \* the writes done so far: the source of fresh unique ids
    last,           \* the last call of a mutating operation and how it ended
    cached_instance, \* BaseLayer._cached_instance: url -> the instance cached, or None
    arg,            \* the object (UniqueID, Key, Value) a conversion is applied to
    ret,            \* the last conversion applied to it and what it returned or raised
    file            \* a file layer used on its own, and the file at its path

vars == <<layers, default_layer, clock, last, cached_instance, arg, ret, file>>

\* appended: the call added a layer to the list; data: the Data handed to a
\* MemLayer.insert
Call(op, key, value, result, target, appended) ==
    [key |-> key, value |-> value, result |-> result, data |-> NoneData,
     target |-> target, op |-> op, appended |-> appended]

\* UniqueID.new(): an id no earlier call returned.
UniqueIDNew == clock + 1

LayerSeqs(n) == [1 .. n -> {NewLayer(name, t) : name \in LayerNames, t \in Thresholds}]

\* Storage(settings, default_layer=..., cached=False)
Init ==
    /\ layers \in UNION {LayerSeqs(n) : n \in LayerCounts}
    /\ default_layer \in {<< >>} \cup LayerSeqs(1)
    /\ clock = 0
    /\ last = Call("init", None, NoneValue, "ok", None, FALSE)
    /\ cached_instance = NoCache
    /\ arg = None /\ ret = None
    /\ file = NoFileLayer(<<"missing">>)

Insert(key, raw, force) ==
    /\ LET r == StorageInsert(layers, default_layer, key, raw, force, UniqueIDNew) IN
       /\ r.result = "ok" => clock < MaxOps
       /\ layers' = r.layers
       /\ last' = Call("insert", key, Value(raw), r.result, r.target, Len(r.layers) > Len(layers))
       /\ clock' = IF r.result = "ok" THEN clock + 1 ELSE clock
    /\ UNCHANGED <<default_layer, cached_instance, arg, ret, file>>

Delete(key) ==
    /\ LET r == StorageDelete(layers, default_layer, key, UniqueIDNew) IN
       /\ r.result = "ok" => clock < MaxOps
       /\ layers' = r.layers
       /\ last' = Call("delete", key, DeletedValue, r.result, r.target, Len(r.layers) > Len(layers))
       /\ clock' = IF r.result = "ok" THEN clock + 1 ELSE clock
    /\ UNCHANGED <<default_layer, cached_instance, arg, ret, file>>

\* the layers whose purge has a choice of iteration order to make
Ordered(ls) == {i \in 1 .. Len(ls) : ls[i].name = "mem" /\ Cardinality(ls[i].keys) > 1}

Purge ==
    /\ \E picks \in [Ordered(layers) -> Keys] :
         LET r == StoragePurge(layers, [i \in 1 .. Len(layers) |-> Get(picks, i, None)]) IN
         /\ layers' = r.layers
         /\ last' = Call("purge", None, NoneValue, r.result, None, FALSE)
    /\ UNCHANGED <<default_layer, cached_instance, clock, arg, ret, file>>

Unlink ==
    /\ LET r == StorageUnlink(layers) IN
       /\ layers' = r.layers
       /\ last' = Call("unlink", None, NoneValue, r.result, None, FALSE)
    /\ UNCHANGED <<default_layer, cached_instance, clock, arg, ret, file>>

\* Storage.query(key): a read; the layers it scans open their files.
QueryKey(key) ==
    /\ LET i == QueryIndex(layers, key, 1) IN
       layers' = [j \in 1 .. Len(layers) |->
                    IF i = None \/ j <= i THEN Read(layers[j]) ELSE layers[j]]
    /\ UNCHANGED <<default_layer, cached_instance, clock, last, arg, ret, file>>

Next ==
    \/ \E key \in Keys, raw \in {None} \cup Raws, force \in BOOLEAN : Insert(key, raw, force)
    \/ \E key \in Keys : Delete(key)
    \/ Purge
    \/ Unlink
    \/ \E key \in Keys : QueryKey(key)

Spec == Init /\ [][Next]_vars

\* ------------------------------------------------- one layer, used directly
\* Layer.open(url, threshold=threshold, cached=False)
LayerInit ==
    /\ layers \in LayerSeqs(1)
    /\ default_layer = << >>
    /\ clock = 0
    /\ last = Call("init", None, NoneValue, "ok", None, FALSE)
    /\ cached_instance = NoCache
    /\ arg = None /\ ret = None
    /\ file = NoFileLayer(<<"missing">>)

\* MemLayer.insert(data)
MemLayerInsert(data) ==
    /\ layers[1].name = "mem"
    /\ clock < MaxOps
    /\ layers' = <<MemInsert(layers[1], data, UniqueIDNew)>>
    /\ last' = [Call("insert", data.primary_key, data.value, "ok", 1, FALSE) EXCEPT !.data = data]
    /\ clock' = clock + 1
    /\ UNCHANGED <<default_layer, cached_instance, arg, ret, file>>

\* AOLFileLayer.insert(key, value, force=force)
AOLLayerInsert(key, raw, force) ==
    /\ layers[1].name = "aol"
    /\ LET r == AOLInsert(layers[1], key, Value(raw), force) IN
       /\ r.result = "ok" => clock < MaxOps
       /\ layers' = <<r.layer>>
       /\ last' = Call("insert", key, Value(raw), r.result, 1, FALSE)
       /\ clock' = IF r.result = "ok" THEN clock + 1 ELSE clock
    /\ UNCHANGED <<default_layer, cached_instance, arg, ret, file>>

\* layer.delete(key)
LayerDeleteKey(key) ==
    /\ clock < MaxOps
    /\ LET r == LayerDelete(layers[1], key, UniqueIDNew) IN
       /\ layers' = <<r.layer>>
       /\ last' = Call("delete", key, DeletedValue, r.result, 1, FALSE)
    /\ clock' = clock + 1
    /\ UNCHANGED <<default_layer, cached_instance, arg, ret, file>>

\* layer.purge()
LayerPurgeAll ==
    /\ \E pick \in Keys :
         LET r == LayerPurge(layers[1], pick) IN
         /\ layers' = <<r.layer>>
         /\ last' = Call("purge", None, NoneValue, r.result, 1, FALSE)
    /\ UNCHANGED <<default_layer, cached_instance, clock, arg, ret, file>>

\* layer.close(), then Layer.open(url, threshold=threshold, cached=False) on
\* the url of a file layer
AOLLayerReopen(threshold) ==
    /\ layers[1].name = "aol"
    /\ layers' = <<FileOpen(layers[1], threshold)>>
    /\ last' = Call("open", None, NoneValue, "ok", 1, FALSE)
    /\ UNCHANGED <<default_layer, cached_instance, clock, arg, ret, file>>

\* list(layer.iterate(desc=desc, based=based)) on a file layer
AOLLayerIterate(desc, based) ==
    /\ layers[1].name = "aol"
    /\ LET r == AOLIterate(layers[1], desc, based) IN
       /\ layers' = <<r.layer>>
       /\ last' = Call("iterate", based, NoneValue, r.result, 1, FALSE)
    /\ UNCHANGED <<default_layer, cached_instance, clock, arg, ret, file>>

LayerNext ==
    \/ \E key \in Keys, raw \in {None} \cup Raws, tags \in TagDicts, is_deleted \in BOOLEAN :
          MemLayerInsert(Data(key, raw, tags, is_deleted))
    \/ \E key \in Keys, raw \in {None} \cup Raws, force \in BOOLEAN : AOLLayerInsert(key, raw, force)
    \/ \E key \in Keys : LayerDeleteKey(key)
    \/ LayerPurgeAll
    \/ \E threshold \in Thresholds : AOLLayerReopen(threshold)
    \/ \E desc \in BOOLEAN, based \in {None} \cup Keys : AOLLayerIterate(desc, based)

LayerSpec == LayerInit /\ [][LayerNext]_vars

\* ------------------------------------------ Layer.open and its instances
\* layers: the instances constructed so far, in the order of construction
CacheInit ==
    /\ layers = << >>
    /\ default_layer = << >>
    /\ clock = 0
    /\ last = Call("init", None, NoneValue, "ok", None, FALSE)
    /\ cached_instance = NoCache
    /\ arg = None /\ ret = None
    /\ file = NoFileLayer(<<"missing">>)

\* Layer.open(url, threshold=threshold, cached=cached)
CacheOpen(url, threshold, cached) ==
    /\ LET r == LayerOpen(layers, cached_instance, url, threshold, cached) IN
       /\ Len(r.layers) <= MaxOpens
       /\ layers' = r.layers
       /\ cached_instance' = r.cache
       /\ last' = Call("open", None, NoneValue, r.result, r.target, Len(r.layers) > Len(layers))
    /\ UNCHANGED <<default_layer, clock, arg, ret, file>>

\* insert(key, value, force=True) through the instance h; the file a file
\* layer appends to is the file of every instance of its url
CacheWrite(h, key, raw) ==
    /\ h \in 1 .. Len(layers)
    /\ clock < MaxOps
    /\ LET r == LayerInsert(layers[h], key, Value(raw), TRUE, UniqueIDNew) IN
       /\ layers' = [j \in 1 .. Len(layers) |->
                       IF j = h THEN r.layer
                       ELSE IF layers[j].name = "aol" /\ layers[h].name = "aol"
                            THEN [layers[j] EXCEPT !.text = r.layer.text, !.exists = TRUE]
                            ELSE layers[j]]
       /\ last' = Call("insert", key, Value(raw), r.result, h, FALSE)
    /\ clock' = clock + 1
    /\ UNCHANGED <<default_layer, cached_instance, arg, ret, file>>

CacheNext ==
    \/ \E url \in URLs, threshold \in Thresholds, cached \in BOOLEAN :
          CacheOpen(url, threshold, cached)
    \/ \E h \in 1 .. MaxOpens, key \in Keys, raw \in {None} \cup Raws : CacheWrite(h, key, raw)

CacheSpec == CacheInit /\ [][CacheNext]_vars

\* ------------------------------------------- a file layer and its file
\* the keys and the values written: an integer key and a string key of 33
\* two-byte characters, no payload and a payload of one byte
FileKeys == {Key(<<"int", 1>>, "None"), Key(<<"str", Run(<<233>>, 33)>>, "None")}

FileValues == {ValueInit(<<"None">>, "None"), ValueInit(<<"bytes", Run(<<120>>, 1)>>, "None")}

\* the files found at the path: none, an empty one, one a layer wrote (a
\* header, or a header and a record), and files whose first 16 bytes are not
\* a header: another magic, another version, another checksum, fewer bytes
Files ==
    LET hdr == HeaderToBytes(0)
        log == Cat(Cat(hdr, Run(<<0>>, TextOffset(0) - 16)),
                   PairToBytes(Key(<<"int", 1>>, "None"), ValueInit(<<"None">>, "None"))) IN
    {<<"missing">>, <<"file", << >>>>, <<"file", hdr>>, <<"file", log>>,
     <<"file", Cat(FromList(<<49>>), Drop(hdr, 1))>>,
     <<"file", Cat(Cat(Take(hdr, 4), FromList(<<2>>)), Drop(log, 5))>>,
     <<"file", Cat(Take(hdr, 12), Run(<<0>>, 4))>>,
     <<"file", Take(hdr, 5)>>}

FileInit ==
    /\ layers = << >>
    /\ default_layer = << >>
    /\ clock = 0
    /\ last = Call("init", << >>, << >>, "ok", None, FALSE)
    /\ cached_instance = NoCache
    /\ arg = None /\ ret = None
    /\ file \in {NoFileLayer(path) : path \in Files}

\* Layer.open("aol://f", cached=False): a new instance over the path
FileLayerOpen ==
    /\ \E r \in {FileLayerInit(file)} :
       /\ file' = r.file
       /\ last' = Call("open", << >>, << >>, r.result, None, FALSE)
    /\ UNCHANGED <<layers, default_layer, clock, cached_instance, arg, ret>>

\* layer.insert(key, value, force=force); last holds the key and the value
\* of a call as <<key>> and <<value>>
FileLayerInsert(key, value, force) ==
    /\ file.header # <<"None">>
    /\ \E r \in {FileInsert(file, key, value, force)} :
       /\ r.result = "ok" => clock < MaxOps
       /\ file' = r.file
       /\ last' = Call("insert", <<key>>, <<value>>, r.result, None, FALSE)
       /\ clock' = IF r.result = "ok" THEN clock + 1 ELSE clock
    /\ UNCHANGED <<layers, default_layer, cached_instance, arg, ret>>

\* layer.delete(key)
FileLayerDelete(key) ==
    /\ file.header # <<"None">>
    /\ clock < MaxOps
    /\ \E r \in {FileDelete(file, key)} :
       /\ file' = r.file
       /\ last' = Call("delete", <<key>>, <<ValueInit(<<"None">>, "DEL")>>, r.result, None, FALSE)
    /\ clock' = clock + 1
    /\ UNCHANGED <<layers, default_layer, cached_instance, arg, ret>>

\* len(layer) and layer.capacity
FileLayerLen ==
    /\ file.header # <<"None">>
    /\ file' = FileFd(file)
    /\ \E n \in {FileCount(file)} :
          last' = Call("len", << >>, << >>, IF n[1] = "ok" THEN "ok" ELSE n[2], None, FALSE)
    /\ UNCHANGED <<layers, default_layer, clock, cached_instance, arg, ret>>

\* layer.close()
FileLayerClose ==
    /\ file.header # <<"None">>
    /\ file' = FileClose(file)
    /\ last' = Call("close", << >>, << >>, "ok", None, FALSE)
    /\ UNCHANGED <<layers, default_layer, clock, cached_instance, arg, ret>>

\* layer.unlink()
FileLayerUnlink ==
    /\ file.header # <<"None">>
    /\ \E r \in {FileUnlink(file)} :
       /\ file' = r.file
       /\ last' = Call("unlink", << >>, << >>, r.result, None, FALSE)
    /\ UNCHANGED <<layers, default_layer, clock, cached_instance, arg, ret>>

FileNext ==
    \/ FileLayerOpen
    \/ \E key \in FileKeys, value \in FileValues, force \in BOOLEAN : FileLayerInsert(key, value, force)
    \/ \E key \in FileKeys : FileLayerDelete(key)
    \/ FileLayerLen
    \/ FileLayerClose
    \/ FileLayerUnlink

FileSpec == FileInit /\ [][FileNext]_vars

\* ------------------------------------------- conversions of typed objects
\* the UniqueIDs drawn: MIN, MAX and d * 32^e
UniqueIDs ==
    {<< >>, [i \in 1 .. LENGTH |-> IF i = LENGTH THEN 7 ELSE 31]}
      \cup {[i \in 1 .. (e + 1) |-> IF i = e + 1 THEN d ELSE 0] : e \in 0 .. (LENGTH - 2), d \in {1, 31}}
      \cup {[i \in 1 .. LENGTH |-> IF i = LENGTH THEN d ELSE 0] : d \in {1, 7}}

\* the Keys drawn: Key(raw) of the bools, of ints around the bounds of WORD
\* and of strings of one-byte ("a") and two-byte ("\u00e9") characters, and
\* Key(raw, ktype) with ktype wider than the detected one
KeyRaws ==
    {<<"bool", b>> : b \in BOOLEAN}
      \cup {<<"int", n>> : n \in {-32769, -32768, -1, 0, 1, 255, 32767, 32768}}
      \cup {<<"str", Run(<<97>>, n)>> : n \in {0, 1, 63, 64, 255}}
      \cup {<<"str", Run(<<233>>, n)>> : n \in {1, 32, 33, 63, 64, 128}}

KeyObjects ==
    {Key(raw, "None") : raw \in KeyRaws}
      \cup {Key(<<"bool", b>>, ktype) : b \in BOOLEAN, ktype \in {"WORD", "INT"}}
      \cup {Key(<<"int", n>>, "INT") : n \in {-1, 0, 1}}
      \cup {Key(<<"str", Run(<<97>>, n)>>, "TEXT") : n \in {0, 1, 63}}

\* the Values drawn: NIL, the tombstone, RAW payloads around the 32-byte
\* alignment and around the size the length field holds, and short CMP ones
ValueObjects ==
    {ValueInit(<<"None">>, "None"), ValueInit(<<"None">>, "DEL")}
      \cup {ValueInit(<<"bytes", Run(<<120>>, n)>>, "None") : n \in {0, 1, 27, 28, 29, 16777215, 16777216}}
      \cup {ValueInit(<<"bytes", Run(<<120>>, n)>>, "CMP") : n \in {0, 1}}

\* the Keys compared with each other: bools, ints and strings, the decimal
\* spellings of the ints among them
CompareKeys ==
    {Key(<<"bool", b>>, "None") : b \in BOOLEAN}
      \cup {Key(<<"int", n>>, "None") : n \in {1, 9, 10, 40000}}
      \cup {Key(<<"str", FromList(s)>>, "None") : s \in {<<49>>, <<57>>, <<49, 48>>, <<97>>}}

Objects ==
    {<<"UniqueID", key>> : key \in UniqueIDs}
      \cup {<<"Key", k>> : k \in KeyObjects}
      \cup {<<"Value", v>> : v \in ValueObjects}
      \cup {<<"Keys", <<a, b, c>>>> : a \in CompareKeys, b \in CompareKeys, c \in CompareKeys}

NoRet == <<"none", None>>

CodecInit ==
    /\ layers = << >>
    /\ default_layer = << >>
    /\ clock = 0
    /\ last = Call("init", None, NoneValue, "ok", None, FALSE)
    /\ cached_instance = NoCache
    /\ arg \in Objects
    /\ ret = NoRet
    /\ file = NoFileLayer(<<"missing">>)

\* str(uid)
UIDStr ==
    /\ arg[1] = "UniqueID" /\ ret = NoRet
    /\ ret' = <<"str", UniqueIDStr(arg[2])>>
    /\ UNCHANGED <<layers, default_layer, clock, last, cached_instance, arg, file>>

\* obj.to_bytes()
ToBytes ==
    /\ arg[1] \in {"Key", "Value"} /\ ret = NoRet
    /\ ret' = <<"to_bytes", IF arg[1] = "Key" THEN KeyToBytes(arg[2]) ELSE ValueToBytes(arg[2])>>
    /\ UNCHANGED <<layers, default_layer, clock, last, cached_instance, arg, file>>

\* cls.from_bytes(data) of the bytes to_bytes returned
FromBytes ==
    /\ arg[1] \in {"Key", "Value"} /\ ret[1] = "to_bytes" /\ ret[2][1] = "ok"
    /\ ret' = <<"from_bytes",
                IF arg[1] = "Key" THEN KeyFromBytes(ret[2][2]) ELSE ValueFromBytes(ret[2][2])>>
    /\ UNCHANGED <<layers, default_layer, clock, last, cached_instance, arg, file>>

\* a == b and a < b, for every two of the three keys
Compare ==
    /\ arg[1] = "Keys" /\ ret = NoRet
    /\ ret' = <<"compare",
                [i \in 1 .. 3 |-> [j \in 1 .. 3 |->
                    <<KeyEq(arg[2][i], arg[2][j]), KeyLt(arg[2][i], arg[2][j])>>]]>>
    /\ UNCHANGED <<layers, default_layer, clock, last, cached_instance, arg, file>>

CodecNext ==
    \/ UIDStr
    \/ ToBytes
    \/ FromBytes
    \/ Compare

CodecSpec == CodecInit /\ [][CodecNext]_vars

\* ------------------------------------------------------------------ claims
\* a step that is a call of Storage.insert or Storage.delete
WriteStep ==
    \/ \E key \in Keys, raw \in {None} \cup Raws, force \in BOOLEAN : Insert(key, raw, force)
    \/ \E key \in Keys : Delete(key)

AllFull(ls) == \A i \in 1 .. Len(ls) : IsFull(ls[i])

\* what a layer holds, whether or not its file is open
Contents(l) == [l EXCEPT !.exists = TRUE]

\* C1: right after a successful Storage.insert(k, v), Storage.query(k) is v.
C1_ReadYourWrites ==
    (last.op = "insert" /\ last.result = "ok") => StorageQuery(layers, last.key) = last.value

\* C2: right after a successful Storage.delete(k), Storage.query(k) is None or
\* the tombstone: the storage has no live value for k.
C2_DeletedIsGone ==
    (last.op = "delete" /\ last.result = "ok")
        => StorageQuery(layers, last.key) \in {NoneValue, DeletedValue}

\* C3: a successful insert or delete adds one record to exactly one layer, the
\* first that was not full (a layer appended for the write when all were), and
\* leaves what every other layer holds unchanged.
C3_WriteLandsOnOneLayer ==
    [][(clock' # clock /\ WriteStep /\ last'.result = "ok") =>
          LET t == last'.target IN
          /\ t \in 1 .. Len(layers')
          /\ \A j \in 1 .. Len(layers) : j < t => IsFull(layers[j])
          /\ t <= Len(layers) => ~IsFull(layers[t])
          /\ Len(layers') = (IF t <= Len(layers) THEN Len(layers) ELSE Len(layers) + 1)
          /\ Capacity(layers'[t]) = (IF t <= Len(layers) THEN Capacity(layers[t]) ELSE 0) + 1
          /\ \A i \in 1 .. Len(layers) : i # t => Contents(layers'[i]) = Contents(layers[i])
      ]_vars

C3_Witness ==
    /\ last.op = "delete" /\ last.result = "ok" /\ last.target = 2
    /\ Len(layers) = 2 /\ Capacity(layers[1]) = 1 /\ Capacity(layers[2]) = 1

\* C4: with every layer full and no default layer, a write fails with
\* ThresholdLimit and the layer list and every layer stay as they were.
C4_AllFullFails ==
    [][(AllFull(layers) /\ default_layer = << >> /\ WriteStep) =>
          (last'.result = "ThresholdLimit" /\ layers' = layers)
      ]_vars

C4_Witness ==
    /\ last.result = "ThresholdLimit" /\ default_layer = << >>
    /\ Len(layers) = 2 /\ AllFull(layers)

C7_History(l, key) ==
    IF l.name = "mem" THEN Get(l.revision, key, << >>)
    ELSE LET hits == SelectSeq(l.text, LAMBDA p : p.key = key) IN
         [i \in 1 .. Len(hits) |->
            [value |-> hits[i].value, tags |-> NoTags,
             is_deleted |-> IsDeletedValue(hits[i].value), primary_key |-> key]]

\* where the revisions of layer i start in the concatenation
C7_Offset(key, i) ==
    LET off[j \in 0 .. Len(layers)] ==
            IF j = 0 THEN 0 ELSE off[j - 1] + Len(C7_History(layers[j], key))
    IN off[i - 1]

C8_SumsAcrossLayers ==
    LET n == Len(layers)
        cnt[i \in 0 .. n] == IF i = 0 THEN 0 ELSE cnt[i - 1] + Count(layers[i])
        cap[i \in 0 .. n] == IF i = 0 THEN 0 ELSE cap[i - 1] + Capacity(layers[i])
    IN /\ StorageCount(layers) = cnt[n]
       /\ StorageCapacity(layers) = cap[n]
       /\ \A k \in Keys :
            StorageContains(layers, k) <=> (\E i \in 1 .. n : Contains(layers[i], k))

C8_Witness ==
    /\ Len(layers) = 2 /\ Count(layers[1]) = 1 /\ Count(layers[2]) = 1
    /\ StorageCount(layers) = 2 /\ StorageCapacity(layers) = 2
    /\ \E k \in Keys : ~Contains(layers[1], k) /\ Contains(layers[2], k)

\* a tombstone among the revisions a MemLayer keeps
HasTombstone(l) ==
    \E k \in DOMAIN l.revision : \E n \in 1 .. Len(l.revision[k]) : l.revision[k][n].is_deleted

\* C9: Storage.purge() and Storage.unlink() reach every layer: no layer's error
\* reaches the caller, and the layers after a rejecting one are processed too.
C9_EveryLayerProcessed ==
    /\ last.op \in {"purge", "unlink"} => last.result = "ok"
    /\ last.op = "purge" =>
         \A i \in 1 .. Len(layers) : layers[i].name = "mem" => ~HasTombstone(layers[i])
    /\ last.op = "unlink" => \A i \in 1 .. Len(layers) : Capacity(layers[i]) = 0

\* a step that is a call of insert on the layer itself
LayerInsertStep ==
    \/ \E key \in Keys, raw \in {None} \cup Raws, tags \in TagDicts, is_deleted \in BOOLEAN :
          MemLayerInsert(Data(key, raw, tags, is_deleted))
    \/ \E key \in Keys, raw \in {None} \cup Raws, force \in BOOLEAN : AOLLayerInsert(key, raw, force)

\* C10: insert of a key the layer does not hold, into a layer that is full
\* (threshold set, capacity >= threshold), fails with ThresholdLimit and
\* leaves the layer as it was.
C10_FullLayerRejectsNewKey ==
    [][(IsFull(layers[1]) /\ LayerInsertStep /\ ~Contains(layers[1], last'.key)) =>
          (last'.result = "ThresholdLimit" /\ Contents(layers'[1]) = Contents(layers[1]))
      ]_vars

\* C11: a layer that is full (threshold set, capacity >= threshold) accepts an
\* insert for a key it already holds (on the file layer: with force): the
\* insert succeeds, appends one revision to the layer, and that revision is
\* what latest(key) returns.
C11_FullLayerAcceptsUpdate ==
    [][\A key \in Keys, raw \in {None} \cup Raws :
         (IsFull(layers[1]) /\ Contains(layers[1], key)) =>
            /\ \A tags \in TagDicts :
                  MemLayerInsert(Data(key, raw, tags, FALSE)) =>
                     /\ last'.result = "ok"
                     /\ MemRevision(layers'[1], key) =
                           <<Data(key, raw, tags, FALSE)>> \o MemRevision(layers[1], key)
                     /\ MemLatest(layers'[1], key) = Data(key, raw, tags, FALSE)
            /\ AOLLayerInsert(key, raw, TRUE) =>
                  /\ last'.result = "ok"
                  /\ layers'[1].text = Append(layers[1].text, Pair(key, Value(raw)))
                  /\ AOLQuery(layers'[1], key) = Value(raw)
      ]_vars

\* an update was written to a layer that was already at its threshold
C11_Witness ==
    /\ last.op = "insert" /\ last.result = "ok"
    /\ layers[1].name = "mem" /\ layers[1].threshold # None
    /\ Capacity(layers[1]) = layers[1].threshold + 1
    /\ Len(MemRevision(layers[1], last.key)) = 2
    /\ \A n \in 1 .. 2 : ~MemRevision(layers[1], last.key)[n].is_deleted

\* the state right after a successful insert on the layer itself; the id the
\* insert returned is the value of the clock
AfterLayerInsert == last.op = "insert" /\ last.result = "ok"

\* what C12 promises of the layer after insert(data) returned uid
C12_Post(l, data, uid) ==
    /\ MemContains(l, data.primary_key)
    /\ uid \in DOMAIN l.mem /\ MemRaw(l, uid) = data
    /\ MemLatest(l, data.primary_key) = data

\* the same for the key/value insert of the file layer
C12_PostKV(l, key, value) == AOLContains(l, key) /\ AOLQuery(l, key) = value

LayerLen(l) == IF l.name = "aol" THEN AOLCount(l) ELSE MemLen(l)

LayerCap(l) == IF l.name = "aol" THEN AOLCapacity(l) ELSE MemCap(l)

\* the key is live: counted by len(L)
Live(l, key) == IF l.name = "aol" THEN key \in AOLPool(l.text, 1, {}) ELSE key \in l.keys

\* C13 as stated: every successful insert on a layer increases len(L) by
\* exactly 1 and cap(L) by exactly 1.
C13_InsertGrowsLenAndCap ==
    [][(LayerInsertStep /\ last'.result = "ok") =>
          /\ LayerLen(layers'[1]) = LayerLen(layers[1]) + 1
          /\ LayerCap(layers'[1]) = LayerCap(layers[1]) + 1
      ]_vars

\* C13 amended: every successful insert increases cap(L) by exactly 1; it
\* increases len(L) by exactly 1 when the key was not live in the layer, and
\* leaves len(L) as it was when the insert updates a live key.
C13_InsertGrowsCap ==
    [][(LayerInsertStep /\ last'.result = "ok") =>
          /\ LayerCap(layers'[1]) = LayerCap(layers[1]) + 1
          /\ LayerLen(layers'[1]) =
                LayerLen(layers[1]) + (IF Live(layers[1], last'.key) THEN 0 ELSE 1)
      ]_vars

\* a live key was updated: two records, one live key
C13_Witness ==
    /\ AfterLayerInsert
    /\ LayerCap(layers[1]) = 2 /\ LayerLen(layers[1]) = 1
    /\ Live(layers[1], last.key)

\* C14: delete(key) on a MemLayer that holds key: afterwards key is not in L,
\* len is one less, cap is one more, latest(key) is null, revisions(key) is one
\* longer and its head is a tombstone.
C14_DeleteOfHeldKey ==
    [][\A key \in Keys :
         (layers[1].name = "mem" /\ MemContains(layers[1], key) /\ LayerDeleteKey(key)) =>
            /\ ~MemContains(layers'[1], key)
            /\ MemLen(layers'[1]) = MemLen(layers[1]) - 1
            /\ MemCap(layers'[1]) = MemCap(layers[1]) + 1
            /\ MemLatest(layers'[1], key) = NoneData
            /\ Len(MemRevision(layers'[1], key)) = Len(MemRevision(layers[1], key)) + 1
            /\ MemRevision(layers'[1], key)[1].is_deleted
      ]_vars

\* a key that was live has been deleted
C14_Witness ==
    /\ last.op = "delete" /\ layers[1].name = "mem"
    /\ Len(MemRevision(layers[1], last.key)) = 2
    /\ ~MemRevision(layers[1], last.key)[2].is_deleted

\* C15: delete(key) for a key that was never inserted or is already deleted
\* does not fail: it returns a new id, appends one tombstone revision, and the
\* key stays absent (contains false, latest null, len unchanged).
C15_DeleteOfAbsentKey ==
    [][\A key \in Keys :
         (~Live(layers[1], key) /\ LayerDeleteKey(key)) =>
            /\ last'.result = "ok"
            /\ LayerLen(layers'[1]) = LayerLen(layers[1])
            /\ LayerCap(layers'[1]) = LayerCap(layers[1]) + 1
            /\ ~Contains(layers'[1], key)
            /\ IF layers[1].name = "mem"
               THEN /\ clock' \in (DOMAIN layers'[1].mem) \ (DOMAIN layers[1].mem)
                    /\ MemRevision(layers'[1], key) =
                          <<Data(key, None, NoTags, TRUE)>> \o MemRevision(layers[1], key)
                    /\ MemLatest(layers'[1], key) = NoneData
               ELSE /\ layers'[1].text = Append(layers[1].text, Pair(key, DeletedValue))
                    /\ AOLQuery(layers'[1], key) = DeletedValue
      ]_vars

\* a is b with some entries left out
RECURSIVE IsSubSeq(_, _)
IsSubSeq(a, b) ==
    IF a = << >> THEN TRUE
    ELSE IF b = << >> THEN FALSE
    ELSE IF Head(a) = Head(b) THEN IsSubSeq(Tail(a), Tail(b))
    ELSE IsSubSeq(a, Tail(b))

\* the data a step of the MemLayer wrote, if it wrote any
C16_Written(data) ==
    \/ MemLayerInsert(data)
    \/ data = Data(data.primary_key, None, NoTags, TRUE) /\ LayerDeleteKey(data.primary_key)

\* C16: revisions(key) is every revision of key written to the layer and not
\* purged, tombstones included, newest first: empty before any write, a write
\* of key puts its revision at the head and leaves the other keys' revisions
\* alone, and purge only takes revisions away.
C16_RevisionsNewestFirst ==
    [][layers[1].name = "mem" =>
         /\ \A data \in {Data(k, r, t, d) : k \in Keys, r \in {None} \cup Raws,
                                             t \in TagDicts, d \in BOOLEAN} :
               C16_Written(data) =>
                  \A k \in Keys :
                     MemRevision(layers'[1], k) =
                        IF k = data.primary_key THEN <<data>> \o MemRevision(layers[1], k)
                        ELSE MemRevision(layers[1], k)
         /\ LayerPurgeAll =>
               \A k \in Keys : IsSubSeq(MemRevision(layers'[1], k), MemRevision(layers[1], k))
      ]_vars

\* C17: search(name, kval) is the set of live keys whose last non-tombstone
\* revision carries tags[name] = kval: an insert of a revision files its key
\* under the tags the revision carries and under no other value of those
\* names, and a delete takes the key out of every posting.
C17_SearchFollowsLastRevision ==
    [][layers[1].name = "mem" =>
         \A name \in TagNames, kval \in TagValues :
            /\ \A k \in Keys, r \in {None} \cup Raws, t \in TagDicts :
                  MemLayerInsert(Data(k, r, t, FALSE)) =>
                     MemSearch(layers'[1], name, kval) =
                        IF name \in DOMAIN t /\ t[name] = kval
                        THEN MemSearch(layers[1], name, kval) \cup {k}
                        ELSE MemSearch(layers[1], name, kval) \ {k}
            /\ \A k \in Keys :
                  LayerDeleteKey(k) =>
                     MemSearch(layers'[1], name, kval) = MemSearch(layers[1], name, kval) \ {k}
      ]_vars

\* the record filed under uid is a tombstone, or a later record of the same key is
Shadowed(l, uid) ==
    \/ l.mem[uid].is_deleted
    \/ \E later \in DOMAIN l.mem :
          /\ later > uid
          /\ l.mem[later].primary_key = l.mem[uid].primary_key
          /\ l.mem[later].is_deleted

\* the revisions reachable through revisions(k), over all keys
RECURSIVE Reachable(_, _)
Reachable(l, ks) ==
    IF ks = {} THEN 0
    ELSE LET k == CHOOSE x \in ks : TRUE IN Len(MemRevision(l, k)) + Reachable(l, ks \ {k})

\* the live keys are the keys whose newest record is not a tombstone: every
\* tombstone the layer holds was written by delete
TombstonesFromDelete(l) ==
    \A uid \in DOMAIN l.mem :
       (\A later \in DOMAIN l.mem : l.mem[later].primary_key = l.mem[uid].primary_key => later <= uid)
          => (l.mem[uid].is_deleted <=> l.mem[uid].primary_key \notin l.keys)

\* C18: after purge() on a MemLayer no tombstone and no revision older than a
\* tombstone of its key is reachable through revisions(k) or raw(uid), and cap
\* counts the surviving revisions only; a purge of a layer that holds a key's
\* insert and its delete leaves len = 0 and cap = 0, and a purge of a layer
\* without tombstones changes neither len nor cap.
C18_PurgeDropsShadowed ==
    [][(layers[1].name = "mem" /\ TombstonesFromDelete(layers[1]) /\ LayerPurgeAll) =>
          /\ ~HasTombstone(layers'[1])
          /\ \A uid \in DOMAIN layers[1].mem :
                Shadowed(layers[1], uid) => MemRaw(layers'[1], uid) = NoneData
          /\ MemCap(layers'[1]) = Reachable(layers'[1], Keys)
          /\ (\A uid \in DOMAIN layers[1].mem : Shadowed(layers[1], uid)) =>
                (MemLen(layers'[1]) = 0 /\ MemCap(layers'[1]) = 0)
          /\ (\A uid \in DOMAIN layers[1].mem : ~layers[1].mem[uid].is_deleted) =>
                /\ MemLen(layers'[1]) = MemLen(layers[1])
                /\ MemCap(layers'[1]) = MemCap(layers[1])
      ]_vars

\* the records, histories and live keys of a MemLayer (len and cap are their sizes)
MemState(l) == [mem |-> l.mem, keys |-> l.keys, revision |-> l.revision]

\* C19: purge() is idempotent on a MemLayer: a purge() that follows a purge()
\* leaves the records, the histories, the live keys, len and cap as they are.
C19_PurgeIdempotent ==
    [][(layers[1].name = "mem" /\ last.op = "purge" /\ LayerPurgeAll) =>
          /\ MemState(layers'[1]) = MemState(layers[1])
          /\ MemLen(layers'[1]) = MemLen(layers[1])
          /\ MemCap(layers'[1]) = MemCap(layers[1])
      ]_vars

\* a purge has dropped a record and has left others
C19_Witness ==
    /\ layers[1].name = "mem" /\ last.op = "purge"
    /\ clock = 2 /\ MemCap(layers[1]) = 1
    /\ \E k \in Keys : MemRevision(layers[1], k) # << >>

\* every layer of the storage, and the default layer if there is one, is a file layer
AllAOL ==
    /\ \A i \in 1 .. Len(layers) : layers[i].name = "aol"
    /\ default_layer # << >> => default_layer[1].name = "aol"

\* C20: through a Storage of AOL layers that can take a write (a layer is not
\* full, or there is a default layer), insert(k, v2) without force for a key
\* that already exists fails with DuplicateKey and changes nothing: len,
\* capacity and the value stored for k are as before the call.
C20_DuplicateKeyRejected ==
    [][\A key \in Keys, raw \in {None} \cup Raws :
         (/\ AllAOL
          /\ ~(AllFull(layers) /\ default_layer = << >>)
          /\ StorageQuery(layers, key) \notin {NoneValue, DeletedValue}
          /\ Insert(key, raw, FALSE)) =>
            /\ last'.result = "DuplicateKey"
            /\ StorageCount(layers') = StorageCount(layers)
            /\ StorageCapacity(layers') = StorageCapacity(layers)
            /\ StorageQuery(layers', key) = StorageQuery(layers, key)
      ]_vars

\* ---- C21
\* every read of a file layer: the value of each key, its revisions, len and
\* capacity
AOLReads(l) ==
    <<[k \in Keys |-> <<AOLQuery(l, k), AOLRevision(l, k)>>], AOLCount(l), AOLCapacity(l)>>

\* a step that is insert(key, v2, force=True) right after insert(key, v1) on
\* an empty log
C21_ForcedInsert(key, v2) ==
    /\ AOLLayerInsert(key, v2, TRUE)
    /\ last.op = "insert" /\ last.result = "ok" /\ last.key = key
    /\ Len(layers[1].text) = 1

C22_AOLNeverFull ==
    layers[1].name = "aol" => ~IsFull(layers[1])

\* ---- C23
\* the exceptions of the code that stand for the Unsupported error
Unsupported == {"NotImplementedError", "ValueError"}

\* C23: on an AOL layer purge() and iterate(based # None) fail with the
\* Unsupported error and leave the log file and the layer state unchanged.
C23_UnsupportedLeavesLog ==
    [][/\ (LayerPurgeAll /\ layers[1].name = "aol") =>
            last'.result \in Unsupported /\ layers' = layers
       /\ \A desc \in BOOLEAN, based \in Keys :
            AOLLayerIterate(desc, based) =>
                last'.result \in Unsupported /\ layers' = layers]_vars

\* a log with a record, on which purge or iterate(based) has just failed
C23_Witness ==
    /\ layers[1].name = "aol"
    /\ layers[1].text # << >>
    /\ \/ last.op = "purge"
       \/ last.op = "iterate" /\ last.key # None
    /\ last.result \in Unsupported

\* ---- C24
\* the key is active: its most recent revision exists and is not a tombstone
Active(l, key) ==
    IF l.name = "aol" THEN AOLQuery(l, key) # NoneValue /\ ~IsDeletedValue(AOLQuery(l, key))
    ELSE MemLatest(l, key) # NoneData

\* C24: on every layer variant contains(k) is true exactly when k is active
\* (its most recent revision exists and is not a tombstone), and len counts
\* exactly the active keys: a key whose last write is a delete, or an inserted
\* Data with is_deleted, is not contained and not counted.
C24_ContainsIffActive ==
    /\ \A key \in Keys : Contains(layers[1], key) <=> Active(layers[1], key)
    /\ LayerLen(layers[1]) = Cardinality({key \in Keys : Active(layers[1], key)})

\* ---- C25
\* C25: with cached, Layer.open memoizes by url: an open of a cached url
\* returns the cached instance and constructs nothing, an open of a new url
\* constructs an instance and caches it, different urls hold different
\* instances, and a write through an instance is read through every url that
\* holds it; without cached every open constructs a new instance that is not
\* in the cache, and leaves the cache as it was.  A write changes no MemLayer
\* but the one written through.
C25_OpenMemoizesByURL ==
    [][/\ \A url \in URLs, threshold \in Thresholds :
            /\ CacheOpen(url, threshold, TRUE) =>
                  /\ last'.target = cached_instance'[url]
                  /\ \A u \in URLs \ {url} : cached_instance'[u] = cached_instance[u]
                  /\ IF cached_instance[url] # None
                     THEN cached_instance'[url] = cached_instance[url] /\ layers' = layers
                     ELSE /\ layers' = Append(layers, layers'[Len(layers')])
                          /\ last'.target = Len(layers')
                          /\ \A u \in URLs : cached_instance[u] # last'.target
            /\ CacheOpen(url, threshold, FALSE) =>
                  /\ layers' = Append(layers, layers'[Len(layers')])
                  /\ last'.target = Len(layers')
                  /\ cached_instance' = cached_instance
                  /\ \A u \in URLs : cached_instance[u] # last'.target
       /\ \A u1, u2 \in URLs :
            (u1 # u2 /\ cached_instance'[u1] # None) => cached_instance'[u1] # cached_instance'[u2]
       /\ \A h \in 1 .. MaxOpens, key \in Keys, raw \in {None} \cup Raws :
            CacheWrite(h, key, raw) =>
                /\ \A u \in URLs :
                     cached_instance[u] = h =>
                         Query(layers'[cached_instance'[u]], key) = Value(raw)
                /\ \A j \in 1 .. Len(layers) :
                     (j # h /\ layers[j].name = "mem") => layers'[j] = layers[j]
      ]_vars

\* an open that returned the cached instance of its url, which holds a value
\* written through it, while another instance was opened without the cache
C25_Witness ==
    /\ last.op = "open" /\ ~last.appended
    /\ \E url \in URLs : cached_instance[url] = last.target
    /\ Len(layers) = 2
    /\ \E u \in URLs : cached_instance[u] = None
    /\ \E key \in Keys : Contains(layers[last.target], key)
    /\ \E j \in 1 .. Len(layers) : \A u \in URLs : cached_instance[u] # j

\* ---- C26
\* the 5-bit group of weight 32^j of the int key
Group(key, j) == IF j + 1 <= Len(key) THEN key[j + 1] ELSE 0

\* C26: for every UniqueID u in [0, 2^128), str(u) is exactly 26 characters of
\* the alphabet 0123456789ABCDEFGHJKMNPQRSTVWXYZ: the base-32 digits of u, most
\* significant first, left-padded with '0'.
C26_StrIsPaddedBase32 ==
    (arg[1] = "UniqueID" /\ ret[1] = "str") =>
        /\ Len(ret[2]) = LENGTH
        /\ \A i \in 1 .. LENGTH : ret[2][i] = ENCODING_TABLE[Group(arg[2], LENGTH - i) + 1]

\* ---- C27
\* C27: for every Key that can be constructed, to_bytes() has length exactly
\* the width of its ktype, strings of multi-byte characters and pinned ktypes
\* included.
C27_KeyBytesHaveKtypeWidth ==
    (arg[1] = "Key" /\ ret[1] = "to_bytes") =>
        /\ ret[2][1] = "ok"
        /\ BLen(ret[2][2]) = KeyTypeCap(arg[2].ktype)

\* ---- C28
\* C28: for every valid raw value of every ktype,
\* Key.from_bytes(Key(raw).to_bytes()) is a Key of the ktype and value of
\* Key(raw).
C28_KeyRoundTrip ==
    /\ (arg[1] = "Key" /\ ret[1] = "to_bytes") => ret[2][1] = "ok"
    /\ (arg[1] = "Key" /\ ret[1] = "from_bytes") =>
          /\ ret[2][1] = "ok"
          /\ ret[2][2].ktype = arg[2].ktype
          /\ KeyValue(ret[2][2]) = KeyValue(arg[2])

\* ---- C29
\* C29: Value.from_bytes(v.to_bytes()) == v for NIL, DEL, RAW (the zero-length
\* one included) and CMP values.
C29_ValueRoundTrip ==
    /\ (arg[1] = "Value" /\ ret[1] = "to_bytes") => ret[2][1] = "ok"
    /\ (arg[1] = "Value" /\ ret[1] = "from_bytes") => ret[2] = Ok(arg[2])

\* ---- C30
\* C30: the total length of a serialized Value, checksum included, is a
\* multiple of 32 bytes for every payload length; NIL, DEL and the empty RAW
\* serialize to exactly 32 bytes.
C30_ValueBytesAligned ==
    (arg[1] = "Value" /\ ret[1] = "to_bytes") =>
        /\ ret[2][1] = "ok"
        /\ BLen(ret[2][2]) % 32 = 0
        /\ (arg[2].vtype \in {"NIL", "DEL"} \/ arg[2].raw = <<"bytes", << >>>>) =>
              BLen(ret[2][2]) = 32

\* ---- C35
\* C35: MemLayer.purge() keeps each live key's own revisions: with two or more
\* live keys in the layer, purge() changes neither latest(k), contains(k) nor
\* len for any key k, and afterwards revisions(k) holds only revisions whose
\* primary_key is k.
C35_PurgeKeepsOwnRevisions ==
    [][(/\ layers[1].name = "mem"
        /\ TombstonesFromDelete(layers[1])
        /\ Cardinality(layers[1].keys) >= 2
        /\ LayerPurgeAll) =>
          /\ MemLen(layers'[1]) = MemLen(layers[1])
          /\ \A k \in Keys :
                /\ MemLatest(layers'[1], k) = MemLatest(layers[1], k)
                /\ MemContains(layers'[1], k) = MemContains(layers[1], k)
                /\ \A i \in 1 .. Len(MemRevision(layers'[1], k)) :
                      MemRevision(layers'[1], k)[i].primary_key = k
      ]_vars

\* ---- C36
\* the number of revisions in the histories of the keys ks
RECURSIVE Histories(_, _)
Histories(l, ks) ==
    IF ks = {} THEN 0
    ELSE LET k == CHOOSE x \in ks : TRUE IN Len(l.revision[k]) + Histories(l, ks \ {k})

\* C36: the three indices of a MemLayer are coherent after any sequence of
\* insert, delete and purge: cap equals the number of revisions over all
\* histories, every record is in the history of its primary key, every history
\* entry is a record, and the live keys are exactly the keys whose last
\* history entry is not a tombstone.
C36_IndicesCoherent ==
    layers[1].name = "mem" =>
       LET l == layers[1] IN
       /\ MemCap(l) = Histories(l, DOMAIN l.revision)
       /\ \A uid \in DOMAIN l.mem :
             /\ l.mem[uid].primary_key \in DOMAIN l.revision
             /\ \E i \in 1 .. Len(l.revision[l.mem[uid].primary_key]) :
                   l.revision[l.mem[uid].primary_key][i] = l.mem[uid]
       /\ \A k \in DOMAIN l.revision : \A i \in 1 .. Len(l.revision[k]) :
             \E uid \in DOMAIN l.mem : l.mem[uid] = l.revision[k][i]
       /\ l.keys = {k \in DOMAIN l.revision :
                      l.revision[k] # << >> /\ ~l.revision[k][Len(l.revision[k])].is_deleted}

\* ---- C37
\* the log holds a live record of the key and, after it, a tombstone as the
\* key's last record: insert(key, v1) then delete(key)
InsertedThenDeleted(l, key) ==
    /\ l.name = "aol"
    /\ IsDeletedValue(AOLQuery(l, key))
    /\ \E i \in 1 .. Len(l.text) : l.text[i].key = key /\ ~IsDeletedValue(l.text[i].value)

\* C37: on an AOL layer a deleted key can be inserted again: after
\* insert(k, v1) and delete(k), insert(k, v2) without force succeeds and v2 is
\* the current value of k.
C37_DeletedKeyReinserted ==
    [][\A key \in Keys, raw \in {None} \cup Raws :
          (InsertedThenDeleted(layers[1], key) /\ AOLLayerInsert(key, raw, FALSE)) =>
             /\ last'.result = "ok"
             /\ AOLQuery(layers'[1], key) = Value(raw)
      ]_vars

\* ---- C39
\* C39: a Value the constructor leaves as RAW serializes a header whose type
\* field is RAW and whose 24-bit length field is the payload length n, for
\* every n, n = 2^24 included: the length never carries into the type byte.
C39_RawLengthFitsHeader ==
    (arg[1] = "Value" /\ arg[2].vtype = "RAW" /\ ret[1] = "to_bytes") =>
        /\ ret[2][1] = "ok"
        /\ ValueTypeOf(UnpackU32(Take(ret[2][2], 4))[1]) = "RAW"
        /\ UnpackU32(Take(ret[2][2], 4))[2] = BLen(arg[2].raw[2])

\* ---- C40
\* C40: the comparison of Keys is coherent across ktypes: for all Keys a, b
\* and c, == is reflexive, symmetric and transitive, < is transitive, and
\* exactly one of a < b, a == b, b < a holds.
C40_KeyOrderCoherent ==
    (arg[1] = "Keys" /\ ret[1] = "compare") =>
       LET eq(i, j) == ret[2][i][j][1]
           lt(i, j) == ret[2][i][j][2] IN
       /\ \A i \in 1 .. 3 : eq(i, i)
       /\ \A i, j \in 1 .. 3 : eq(i, j) <=> eq(j, i)
       /\ \A i, j, k \in 1 .. 3 : (eq(i, j) /\ eq(j, k)) => eq(i, k)
       /\ \A i, j, k \in 1 .. 3 : (lt(i, j) /\ lt(j, k)) => lt(i, k)
       /\ \A i, j \in 1 .. 3 :
             /\ lt(i, j) \/ eq(i, j) \/ lt(j, i)
             /\ ~(lt(i, j) /\ eq(i, j)) /\ ~(lt(i, j) /\ lt(j, i))

\* ---- C31
\* C31: the AOL is append-only: an insert or a delete writes its record at the
\* end of the file, at an offset that is not before text_offset; the header
\* and the records written before stay byte for byte as they were; and the
\* records read back are the earlier ones followed by the new one.
C31_AppendOnly ==
    [][\A key \in FileKeys, value \in FileValues \cup {ValueInit(<<"None">>, "DEL")} :
          (/\ file.header # <<"None">>
           /\ FileIter(file)[1] = "ok"
           /\ \/ \E force \in BOOLEAN : FileLayerInsert(key, value, force)
              \/ value.vtype = "DEL" /\ FileLayerDelete(key)
           /\ last'.result = "ok") =>
             LET old == FileBytes(file)
                 new == FileBytes(file')
                 at  == BLen(new) - BLen(PairToBytes(key, value)) IN
             /\ at >= TextOffset(file.header[2])
             /\ at >= BLen(old)
             /\ Take(new, BLen(old)) = old
             /\ Drop(new, at) = PairToBytes(key, value)
             /\ FileIter(file') = Ok(Append(FileIter(file)[2], Pair(key, value)))
      ]_vars

\* ---- C32
\* C32: unlink() on an AOL layer closes the descriptor and deletes the file;
\* afterwards the layer is empty, len and capacity being 0; and an unlink()
\* that follows an unlink() does not fail.
C32_UnlinkEmptiesAndRepeats ==
    [][FileLayerUnlink =>
          /\ file.path[1] = "file" =>
                /\ last'.result = "ok"
                /\ file'.fd = "None" /\ file'.fds = 0
                /\ file'.path = <<"missing">>
                /\ FileCount(file') = Ok(0) /\ FileCapacity(file') = Ok(0)
          /\ last.op = "unlink" => last'.result = "ok"
      ]_vars

\* ---- C33
\* C33: an AOL layer holds at most one open file descriptor: it is acquired
\* on first use and held across the operations, and after close() or unlink()
\* the layer holds none, until a later operation acquires one again.
C33_OneDescriptor ==
    /\ file.fds = IF file.fd = "open" THEN 1 ELSE 0
    /\ file.header = <<"None">> => file.fd = "None"
    /\ last.op \in {"close", "unlink"} => file.fd = "None"
    /\ (last.op \in {"insert", "delete", "len"} \/ (last.op = "open" /\ last.result = "ok")) =>
          file.fd = "open"

\* an insert has acquired the descriptor again after an unlink: the file it
\* wrote to was created by that insert
C33_Witness ==
    /\ last.op = "insert" /\ last.result = "ok"
    /\ file.fd = "open" /\ file.fds = 1
    /\ Take(FileBytes(file), 16) = Run(<<0>>, 16)

\* ---- C34
\* the first 16 bytes are a header whose magic, version and checksum match
HeaderMatches(data) ==
    /\ Take(data, 4) = HeaderMagic
    /\ Slice(data, 4, 5) = Run(<<1>>, 1)
    /\ BLen(data) >= 16 /\ Slice(data, 12, 16) = PackCrc32(Take(data, 12))

\* C34: opening an AOL layer on an empty or missing file writes a fresh valid
\* 16-byte header and shows no record; opening a file that is not empty
\* validates its header and fails, leaving the file as it is, when the magic,
\* the version or the checksum does not match.
C34_OpenWritesOrValidates ==
    [][FileLayerOpen =>
          /\ FileBytes(file) = << >> =>
                /\ last'.result = "ok"
                /\ BLen(FileBytes(file')) = 16 /\ HeaderMatches(FileBytes(file'))
                /\ FileIter(file') = Ok(<< >>)
          /\ (FileBytes(file) # << >> /\ HeaderMatches(FileBytes(file))) =>
                /\ last'.result = "ok"
                /\ file'.path = file.path
          /\ (FileBytes(file) # << >> /\ ~HeaderMatches(FileBytes(file))) =>
                /\ last'.result = "ValueError"
                /\ file'.path = file.path
                /\ file'.header = <<"None">>
      ]_vars

\* an open has rejected a file that holds a record under another version
C34_Witness ==
    /\ last.op = "open" /\ last.result = "ValueError"
    /\ BLen(FileBytes(file)) > 512
    /\ Take(FileBytes(file), 4) = HeaderMagic
    /\ file.header = <<"None">>

\* ---- C38
\* C38: after any sequence of insert, delete, close, unlink and re-open on the
\* path of an AOL layer, a file that exists and holds a record starts with a
\* valid 16-byte header, so that a later open of the path succeeds.
C38_FileStaysValid ==
    (/\ file.header # <<"None">>
     /\ file.path[1] = "file"
     /\ Drop(FileBytes(file), TextOffset(file.header[2])) # << >>) =>
        /\ HeaderFromBytes(Take(FileBytes(file), 16))[1] = "ok"
        /\ FileLayerInit(file).result = "ok"
====
